---- MODULE Spec2Model ----
(***************************************************************************)
(* Let Me Sleep (src/main.py, src/i18n.py): the snapshot parser            *)
(* get_power_requests, the friendly-name resolver get_friendly_name, the   *)
(* process lookup find_pid_by_name and the SleepMonitor polling threads.   *)
(*                                                                         *)
(* A Python str is modelled as a sequence of characters, each character a  *)
(* one-character TLA+ string; a character outside ASCII is written         *)
(* "U+XXXX" and counts as one character.                                   *)
(***************************************************************************)
EXTENDS Integers, Sequences, FiniteSets, TLC

VARIABLES
    \* ---- i18n module state
    current_lang,     \* i18n._current_lang
    \* ---- one call of get_friendly_name(path, req_type)
    path,             \* argument path
    req_type,         \* argument req_type
    name_result,      \* NoValue, or Returned(the value returned)
    name_lang,        \* history: _current_lang as t() read it in the last call
    \* ---- one call of get_power_requests()
    cmd,              \* what subprocess.run(["powercfg", "/requests"]) does
    procs,            \* the running processes, as tasklist lists them
    tasklist_ok,      \* whether subprocess.run can run tasklist now
    parse_pc,         \* "idle", "call", "scan", "returned" or "raised"
    lines,            \* local lines
    i,                \* local i
    current_category, \* local current_category
    requests,         \* local requests
    parse_result,     \* NoValue, Returned(<<requests, error>>) or Raised
    \* ---- the SleepMonitor object and the threads of SleepMonitor.run
    self_requests,    \* monitor.requests
    self_error,       \* monitor.error
    running,          \* monitor.running
    icon,             \* monitor.icon: None, or <<[icon, title, menu]>>
    window,           \* monitor.window: None, or <<[viewable, content]>>
    after_queue,      \* the callbacks given to ctk_root.after(0, ...), in order
    pc,               \* for each thread, the statement it is at
    frame,            \* for each thread, the locals of the handler it runs
    polls,            \* history: the calls of update() after the first
    redraws,          \* history: the assignments to icon.icon, .menu, .title
    \* ---- the process, from main() to its exit
    argv,             \* the flags in sys.argv
    host,             \* what the operating system answers to main()
    main_pc,          \* where main() is: "main", "print", "single_instance",
                      \* "signal", "elevate", "run" or "exited"
    open_event_calls, \* the calls of OpenEventW made so far
    task_result,      \* NoValue, or Returned([op, success, msg]) of the task
                      \* operation main() has performed
    exit_status,      \* None, or <<the status given to sys.exit>>
    \* ---- one call of kill_process(pid)
    kill_pid,         \* argument pid
    kill_pc,          \* "idle", "call", "taskkill" or "returned"
    taskkill,         \* NoValue, or <<what subprocess.run(["taskkill", ...]) did>>
    kill_result       \* NoValue, Returned(the value returned) or Raised

nameVars == <<path, req_type, name_result, name_lang>>

parseVars == <<cmd, procs, tasklist_ok, parse_pc, lines, i, current_category, requests,
               parse_result>>

monVars == <<self_requests, self_error, running, icon, window, after_queue, pc,
             frame, polls, redraws>>

mainVars == <<argv, host, main_pc, open_event_calls, task_result, exit_status>>

killVars == <<kill_pid, kill_pc, taskkill, kill_result>>

vars == <<current_lang, nameVars, parseVars, monVars, mainVars, killVars>>

\* A call's result: <<>> before the call returns, <<v>> once it returned v.
NoValue == <<>>

Returned(v) == <<v>>

\* An exception left the call.
Raised == <<"raised", "raised">>

\* Optional[str]: None, or Str(s) for the str s ("" is Str(<<>>)).
None == <<>>

Str(s) == <<s>>

\* bool(e) of an Optional[str]: neither None nor ""
truthy(e) == e # None /\ e[1] # <<>>

(***************************************************************************)
(* Bounds of the model.                                                    *)
(***************************************************************************)
\* Number of fragments concatenated into an identifier given to
\* get_friendly_name.
MaxFrags == 3

\* Number of lines of a report of powercfg /requests.
MaxLines == 3

\* Number of calls of update() after the first one, made by run().
MaxPolls == 2

(***************************************************************************)
(* Python str operations.                                                  *)
(***************************************************************************)
UpperCase == <<"A", "B", "C", "D", "E", "F", "G", "H", "I", "J", "K", "L", "M",
               "N", "O", "P", "Q", "R", "S", "T", "U", "V", "W", "X", "Y", "Z">>

LowerCase == <<"a", "b", "c", "d", "e", "f", "g", "h", "i", "j", "k", "l", "m",
               "n", "o", "p", "q", "r", "s", "t", "u", "v", "w", "x", "y", "z">>

DigitChars == {"0", "1", "2", "3", "4", "5", "6", "7", "8", "9"}

SpaceChars == {" ", "\t", "\r", "\n"}

\* str.lower() of one character
lower_char(c) ==
    IF \E k \in DOMAIN UpperCase : UpperCase[k] = c
    THEN LowerCase[CHOOSE k \in DOMAIN UpperCase : UpperCase[k] = c]
    ELSE c

\* s.lower()
lower(s) == [k \in 1..Len(s) |-> lower_char(s[k])]

\* sub in s
contains(sub, s) ==
    \E k \in 0..(Len(s) - Len(sub)) : SubSeq(s, k + 1, k + Len(sub)) = sub

\* s.startswith(pre)
startswith(s, pre) == Len(s) >= Len(pre) /\ SubSeq(s, 1, Len(pre)) = pre

\* s.endswith(suf)
endswith(s, suf) ==
    Len(s) >= Len(suf) /\ SubSeq(s, Len(s) - Len(suf) + 1, Len(s)) = suf

\* c.isdigit()
isdigit(c) == c \in DigitChars

\* any(c.isdigit() for c in s)
any_digit(s) == \E k \in 1..Len(s) : isdigit(s[k])

\* s.strip()
strip(s) ==
    LET keep == {k \in 1..Len(s) : s[k] \notin SpaceChars}
    IN  IF keep = {} THEN <<>>
        ELSE SubSeq(s, CHOOSE k \in keep : \A j \in keep : k <= j,
                       CHOOSE k \in keep : \A j \in keep : k >= j)

\* s[:n]
prefix(s, n) == SubSeq(s, 1, IF Len(s) < n THEN Len(s) ELSE n)

\* s.split(sep)[-1], sep one character
split_last(s, sep) ==
    LET at == {k \in 1..Len(s) : s[k] = sep}
    IN  IF at = {} THEN s
        ELSE SubSeq(s, (CHOOSE k \in at : \A j \in at : k >= j) + 1, Len(s))

(***************************************************************************)
(* src/i18n.py                                                             *)
(***************************************************************************)
Langs == {"en", "zh_TW", "zh_CN"}

\* TRANSLATIONS, the keys get_friendly_name uses
TRANSLATIONS ==
  [en |-> [
    smb_network_share |-> <<"S", "M", "B", " ", "N", "e", "t", "w", "o", "r", "k", " ", "S", "h", "a", "r", "e">>,
    audio_device |-> <<"A", "u", "d", "i", "o", " ", "D", "e", "v", "i", "c", "e">>,
    usb_hub |-> <<"U", "S", "B", " ", "H", "u", "b">>,
    usb_controller |-> <<"U", "S", "B", " ", "C", "o", "n", "t", "r", "o", "l", "l", "e", "r">>,
    intel_power_mgmt |-> <<"I", "n", "t", "e", "l", " ", "P", "o", "w", "e", "r", " ", "M", "a", "n", "a", "g", "e", "m", "e", "n", "t">>,
    amd_power_mgmt |-> <<"A", "M", "D", " ", "P", "o", "w", "e", "r", " ", "M", "a", "n", "a", "g", "e", "m", "e", "n", "t">>,
    acpi_power |-> <<"A", "C", "P", "I", " ", "P", "o", "w", "e", "r">>,
    ntfs_filesystem |-> <<"N", "T", "F", "S", " ", "F", "i", "l", "e", " ", "S", "y", "s", "t", "e", "m">>,
    usb_device |-> <<"U", "S", "B", " ", "D", "e", "v", "i", "c", "e">>,
    pci_device |-> <<"P", "C", "I", " ", "D", "e", "v", "i", "c", "e">>,
    input_device |-> <<"I", "n", "p", "u", "t", " ", "D", "e", "v", "i", "c", "e">>,
    hardware_device |-> <<"H", "a", "r", "d", "w", "a", "r", "e", " ", "D", "e", "v", "i", "c", "e">>,
    legacy_kernel_caller |-> <<"L", "e", "g", "a", "c", "y", " ", "K", "e", "r", "n", "e", "l", " ", "C", "a", "l", "l", "e", "r">>],
   zh_TW |-> [
    smb_network_share |-> <<"S", "M", "B", " ", "U+7DB2", "U+8DEF", "U+5171", "U+7528">>,
    audio_device |-> <<"U+97F3", "U+8A0A", "U+88DD", "U+7F6E">>,
    usb_hub |-> <<"U", "S", "B", " ", "U+96C6", "U+7DDA", "U+5668">>,
    usb_controller |-> <<"U", "S", "B", " ", "U+63A7", "U+5236", "U+5668">>,
    intel_power_mgmt |-> <<"I", "n", "t", "e", "l", " ", "U+96FB", "U+6E90", "U+7BA1", "U+7406">>,
    amd_power_mgmt |-> <<"A", "M", "D", " ", "U+96FB", "U+6E90", "U+7BA1", "U+7406">>,
    acpi_power |-> <<"A", "C", "P", "I", " ", "U+96FB", "U+6E90">>,
    ntfs_filesystem |-> <<"N", "T", "F", "S", " ", "U+6A94", "U+6848", "U+7CFB", "U+7D71">>,
    usb_device |-> <<"U", "S", "B", " ", "U+88DD", "U+7F6E">>,
    pci_device |-> <<"P", "C", "I", " ", "U+88DD", "U+7F6E">>,
    input_device |-> <<"U+8F38", "U+5165", "U+88DD", "U+7F6E">>,
    hardware_device |-> <<"U+786C", "U+9AD4", "U+88DD", "U+7F6E">>,
    legacy_kernel_caller |-> <<"U+820A", "U+7248", "U+6838", "U+5FC3", "U+547C", "U+53EB", "U+7A0B", "U+5F0F">>],
   zh_CN |-> [
    smb_network_share |-> <<"S", "M", "B", " ", "U+7F51", "U+7EDC", "U+5171", "U+4EAB">>,
    audio_device |-> <<"U+97F3", "U+9891", "U+8BBE", "U+5907">>,
    usb_hub |-> <<"U", "S", "B", " ", "U+96C6", "U+7EBF", "U+5668">>,
    usb_controller |-> <<"U", "S", "B", " ", "U+63A7", "U+5236", "U+5668">>,
    intel_power_mgmt |-> <<"I", "n", "t", "e", "l", " ", "U+7535", "U+6E90", "U+7BA1", "U+7406">>,
    amd_power_mgmt |-> <<"A", "M", "D", " ", "U+7535", "U+6E90", "U+7BA1", "U+7406">>,
    acpi_power |-> <<"A", "C", "P", "I", " ", "U+7535", "U+6E90">>,
    ntfs_filesystem |-> <<"N", "T", "F", "S", " ", "U+6587", "U+4EF6", "U+7CFB", "U+7EDF">>,
    usb_device |-> <<"U", "S", "B", " ", "U+8BBE", "U+5907">>,
    pci_device |-> <<"P", "C", "I", " ", "U+8BBE", "U+5907">>,
    input_device |-> <<"U+8F93", "U+5165", "U+8BBE", "U+5907">>,
    hardware_device |-> <<"U+786C", "U+4EF6", "U+8BBE", "U+5907">>,
    legacy_kernel_caller |-> <<"U+65E7", "U+7248", "U+5185", "U+6838", "U+8C03", "U+7528", "U+7A0B", "U+5E8F">>]]

\* t(key) read under _current_lang = lang
t(lang, key) ==
    LET translations == IF lang \in DOMAIN TRANSLATIONS
                        THEN TRANSLATIONS[lang] ELSE TRANSLATIONS["en"]
    IN  translations[key]

(***************************************************************************)
(* get_friendly_name (src/main.py)                                         *)
(***************************************************************************)
S_PROCESS == <<"P", "R", "O", "C", "E", "S", "S">>
S_DRIVER == <<"D", "R", "I", "V", "E", "R">>
S_SERVICE == <<"S", "E", "R", "V", "I", "C", "E">>

\* known_names, in the dict's insertion order: <<fragment, i18n key>>
known_names == <<
    << <<"s", "r", "v", "n", "e", "t">>, "smb_network_share" >>,
    << <<"h", "d", "a", "u", "d", "i", "o">>, "audio_device" >>,
    << <<"u", "s", "b", "h", "u", "b">>, "usb_hub" >>,
    << <<"u", "s", "b", "x", "h", "c", "i">>, "usb_controller" >>,
    << <<"i", "n", "t", "e", "l", "p", "p", "m">>, "intel_power_mgmt" >>,
    << <<"a", "m", "d", "p", "p", "m">>, "amd_power_mgmt" >>,
    << <<"a", "c", "p", "i">>, "acpi_power" >>,
    << <<"n", "t", "f", "s">>, "ntfs_filesystem" >> >>

\* The keys of known_names found in path_lower, as indices of the table.
known_hits(path_lower) ==
    {k \in DOMAIN known_names : contains(known_names[k][1], path_lower)}

\* A mutant of first_known_key: the last key of the table found in
\* path_lower wins, not the first.
last_known_key(path_lower) ==
    LET hits == known_hits(path_lower)
    IN  known_names[CHOOSE k \in hits : \A j \in hits : k >= j][2]

\* A mutant of first_known_key: usbxhci is tested before usbhub.
usbxhci_before_usbhub(path_lower) ==
    LET hits == known_hits(path_lower)
        rank(k) == IF k = 3 THEN 4 ELSE IF k = 4 THEN 3 ELSE k
    IN  known_names[CHOOSE k \in hits : \A j \in hits : rank(k) <= rank(j)][2]

\* for key, i18n_key in known_names.items(): if key in path_lower: the
\* first i18n_key of the loop (called when there is one)
first_known_key(path_lower) ==
    LET hits == known_hits(path_lower)
    IN  known_names[CHOOSE k \in hits : \A j \in hits : k <= j][2]

\* A mutant of hardware_id_name: pci is tested before usb.
hardware_id_name_pci_first(path_lower, lang) ==
    IF contains(<<"h", "d", "a", "u", "d", "i", "o">>, path_lower)
       \/ contains(<<"a", "u", "d", "i", "o">>, path_lower)
    THEN t(lang, "audio_device")
    ELSE IF contains(<<"p", "c", "i">>, path_lower) THEN t(lang, "pci_device")
    ELSE IF contains(<<"u", "s", "b">>, path_lower) THEN t(lang, "usb_device")
    ELSE IF contains(<<"h", "i", "d">>, path_lower) THEN t(lang, "input_device")
    ELSE t(lang, "hardware_device")

\* The hardware-id branch: a generic name by type.
hardware_id_name(path_lower, lang) ==
    IF contains(<<"h", "d", "a", "u", "d", "i", "o">>, path_lower)
       \/ contains(<<"a", "u", "d", "i", "o">>, path_lower)
    THEN t(lang, "audio_device")
    ELSE IF contains(<<"u", "s", "b">>, path_lower) THEN t(lang, "usb_device")
    ELSE IF contains(<<"p", "c", "i">>, path_lower) THEN t(lang, "pci_device")
    ELSE IF contains(<<"h", "i", "d">>, path_lower) THEN t(lang, "input_device")
    ELSE t(lang, "hardware_device")

\* The last rules: the legacy kernel caller, then the truncation.
fallback_name(p, path_lower, lang) ==
    IF contains(<<"l", "e", "g", "a", "c", "y", " ", "k", "e", "r", "n", "e", "l",
                  " ", "c", "a", "l", "l", "e", "r">>, path_lower)
    THEN t(lang, "legacy_kernel_caller")
    ELSE IF Len(p) < 30 THEN p ELSE prefix(p, 27) \o <<".", ".", ".">>

\* A mutant of segment_accepted: the segment is returned when its first
\* three characters hold a digit.
segment_accepted_with_digit(name) ==
    name # <<>> /\ any_digit(prefix(name, 3))

\* Line 236: if name and not any(c.isdigit() for c in name[:3])
segment_accepted(name) ==
    name # <<>> /\ ~any_digit(prefix(name, 3))

\* get_friendly_name(path, req_type), t() reading _current_lang = lang
get_friendly_name(p, ty, lang) ==
    IF ty = S_PROCESS
    THEN IF contains(<<"\\">>, p) THEN split_last(p, "\\") ELSE p
    ELSE LET path_lower == lower(p)
         IN  IF known_hits(path_lower) # {}
             THEN t(lang, first_known_key(path_lower))
             ELSE IF contains(<<"&">>, p) /\ any_digit(p)
             THEN hardware_id_name(path_lower, lang)
             ELSE LET name == split_last(p, "\\")
                  IN  IF contains(<<"\\">>, p) /\ segment_accepted(name)
                      THEN name
                      ELSE fallback_name(p, path_lower, lang)

(***************************************************************************)
(* The identifiers get_friendly_name is called with: up to MaxFrags        *)
(* fragments, concatenated.                                                *)
(***************************************************************************)
NameFrags == {
    <<"u", "s", "b", "x", "h", "c", "i">>,
    <<"U", "s", "b", "X", "H", "C", "I">>,
    <<"u", "s", "b", "h", "u", "b">>,
    <<"S", "r", "v", "N", "e", "t">>,
    <<"a", "c", "p", "i">>,
    <<"\\">>,
    <<"&">>,
    <<"7">>,
    <<"x">>,
    <<"L", "e", "g", "a", "c", "y", " ", "K", "e", "r", "n", "e", "l", " ",
      "C", "a", "l", "l", "e", "r">>,
    <<"R", "e", "a", "l", "t", "e", "k", " ", "H", "i", "g", "h", " ",
      "D", "e", "f", "i", "n", "i", "t", "i", "o", "n", " ",
      "A", "u", "d", "i", "o">> }

RECURSIVE Concats(_)
Concats(n) ==
    IF n = 0 THEN {<<>>}
    ELSE LET prev == Concats(n - 1)
         IN  prev \cup {a \o f : a \in prev, f \in NameFrags}

NamePaths == Concats(MaxFrags)

ReqTypes == {S_PROCESS, S_DRIVER}

(***************************************************************************)
(* The variables of the parts of the program a specification leaves out.   *)
(***************************************************************************)
NameIdle ==
    /\ path = <<>>
    /\ req_type = <<>>
    /\ name_result = NoValue
    /\ name_lang = ""

ParseIdle ==
    /\ cmd = NoValue
    /\ procs = <<>>
    /\ tasklist_ok = TRUE
    /\ parse_pc = "idle"
    /\ lines = <<>>
    /\ i = 0
    /\ current_category = <<>>
    /\ requests = <<>>
    /\ parse_result = NoValue

\* The threads of SleepMonitor.run: "main" runs run() and then the Tk main
\* loop, "monitor" runs monitor_loop, "tray" runs the pystray callbacks.
Threads == {"main", "monitor", "tray"}

\* The locals of a thread: the function that called update() or
\* update_ui(), what get_power_requests() returned, the pair the store at
\* line 765 replaced, the local actionable of update() and the local
\* actionable of get_menu(); and, as history, for a get_menu() or
\* update_ui() that has read self.error and goes on to read self.requests,
\* the pairs (requests, error) the monitor has held since that read, first
\* the one it held at that read; and, as history, stale: for an update()
\* about to store snap, whether get_power_requests() returned it before the
\* last call of show(); for the update_ui() of a show(), whether the pair
\* the monitor holds was returned before that call of show().
no_frame == [caller |-> "", snap |-> NoValue, prev |-> NoValue,
             actionable |-> <<>>, menu_actionable |-> <<>>, seen |-> <<>>,
             stale |-> FALSE]

\* The callers of update_ui() while _show_window_safe runs.
ShowCallers == {"__init__", "show"}

\* SleepMonitor.__init__, lines 629-638; no thread runs yet.
MonIdle ==
    /\ self_requests = <<>>
    /\ self_error = None
    /\ running = TRUE
    /\ icon = None
    /\ window = None
    /\ after_queue = <<>>
    /\ pc = [T \in Threads |-> "not_started"]
    /\ frame = [T \in Threads |-> no_frame]
    /\ polls = 0
    /\ redraws = 0

\* No call of kill_process is under way.
KillIdle ==
    /\ kill_pid = <<>>
    /\ kill_pc = "idle"
    /\ taskkill = NoValue
    /\ kill_result = NoValue

\* main() has gone through to line 896 and made the SleepMonitor: no flag
\* of a task operation in sys.argv, this process the primary instance and
\* an administrator.
MainIdle ==
    /\ argv = {}
    /\ open_event_calls = 0
    /\ host = [admin |-> TRUE, schtasks |-> NoValue, other_instance |-> FALSE,
               mutex_handle |-> TRUE, show_gui_event |-> 0,
               task_installed |-> FALSE, elevation |-> FALSE]
    /\ main_pc = "run"
    /\ task_result = NoValue
    /\ exit_status = None

(***************************************************************************)
(* SpecName: calls of get_friendly_name.                                   *)
(***************************************************************************)
InitName ==
    /\ current_lang \in Langs
    /\ path \in NamePaths
    /\ req_type \in ReqTypes
    /\ name_result = NoValue
    /\ name_lang = ""
    /\ ParseIdle
    /\ MonIdle
    /\ MainIdle
    /\ KillIdle

\* i18n.set_lang(lang)
set_lang(lang) ==
    /\ current_lang' = (IF lang \in DOMAIN TRANSLATIONS THEN lang ELSE current_lang)
    /\ UNCHANGED <<path, req_type, name_result, name_lang>>
    /\ UNCHANGED parseVars
    /\ UNCHANGED monVars
    /\ UNCHANGED <<mainVars, killVars>>

\* A call of get_friendly_name whose t() would switch the module to English.
Resolve_setting_lang ==
    /\ name_result' = Returned(get_friendly_name(path, req_type, "en"))
    /\ name_lang' = "en"
    /\ current_lang' = "en"
    /\ UNCHANGED <<path, req_type>>
    /\ UNCHANGED parseVars
    /\ UNCHANGED monVars
    /\ UNCHANGED <<mainVars, killVars>>

\* one call get_friendly_name(path, req_type)
Resolve ==
    /\ name_result' = Returned(get_friendly_name(path, req_type, current_lang))
    /\ name_lang' = current_lang
    /\ UNCHANGED <<current_lang, path, req_type>>
    /\ UNCHANGED parseVars
    /\ UNCHANGED monVars
    /\ UNCHANGED <<mainVars, killVars>>

NextName ==
    \/ \E lang \in Langs \cup {"fr"} : set_lang(lang)
    \/ Resolve

SpecName == InitName /\ [][NextName]_vars

(***************************************************************************)
(* Claims on get_friendly_name, checked under SpecName.                    *)
(***************************************************************************)
S_usbxhci == <<"u", "s", "b", "x", "h", "c", "i">>

\* The USB-controller label, in each language t() can read.
UsbControllerLabels == {t(lang, "usb_controller") : lang \in Langs}

\* The call has returned, for a driver-kind identifier containing usbxhci in
\* any letter case.
UsbxhciDriverResolved ==
    /\ name_result # NoValue
    /\ req_type # S_PROCESS
    /\ contains(S_usbxhci, lower(path))

\* The fragments of known_names that precede usbxhci.
EarlierThanUsbxhci ==
    {<<"s", "r", "v", "n", "e", "t">>, <<"h", "d", "a", "u", "d", "i", "o">>,
     <<"u", "s", "b", "h", "u", "b">>}

\* C10 as stated: every driver-kind identifier that contains usbxhci, in any
\* letter case and whatever surrounds it, resolves to the USB-controller
\* label.
C10_UsbxhciAlwaysController ==
    UsbxhciDriverResolved => name_result[1] \in UsbControllerLabels

\* C10 amended: a driver-kind identifier that contains usbxhci in any letter
\* case, and none of the fragments srvnet, hdaudio, usbhub that precede it in
\* known_names, resolves to the USB-controller label, whatever else
\* surrounds it.
C10_UsbxhciControllerUnlessEarlier ==
    (UsbxhciDriverResolved
        /\ \A f \in EarlierThanUsbxhci : ~contains(f, lower(path)))
    => name_result[1] \in UsbControllerLabels

\* C10 witness: a mixed-case usbxhci after a path separator and followed by
\* the later fragment acpi has resolved to the USB-controller label.
C10_Witness ==
    /\ path = <<"\\">> \o <<"U", "s", "b", "X", "H", "C", "I">> \o <<"a", "c", "p", "i">>
    /\ req_type = S_DRIVER
    /\ name_result = Returned(t(current_lang, "usb_controller"))

(***************************************************************************)
(* The identifiers made of the keys of known_names, up to MaxKeys          *)
(* fragments concatenated, and those made of the words of the hardware-id  *)
(* rule, up to MaxIdParts fragments concatenated. SpecTable is SpecName    *)
(* over these identifiers.                                                 *)
(***************************************************************************)
MaxKeys == 2

MaxIdParts == 3

HardwareFrags ==
    {<<"A", "u", "d", "i", "o">>, <<"U", "S", "B">>, <<"P", "C", "I">>,
     <<"h", "i", "d">>, <<"&", "7">>, <<"&">>, <<"V", "E", "N">>}

RECURSIVE HardwareConcats(_)
HardwareConcats(n) ==
    IF n = 0 THEN {<<>>}
    ELSE LET prev == HardwareConcats(n - 1)
         IN  prev \cup {a \o f : a \in prev, f \in HardwareFrags}

HardwarePaths == HardwareConcats(MaxIdParts)

TableFrags ==
    {known_names[k][1] : k \in DOMAIN known_names}
    \cup {<<"H", "D", "A", "U", "D", "I", "O">>, <<"&", "7">>, <<"\\">>}

RECURSIVE TableConcats(_)
TableConcats(n) ==
    IF n = 0 THEN {<<>>}
    ELSE LET prev == TableConcats(n - 1)
         IN  prev \cup {a \o f : a \in prev, f \in TableFrags}

TablePaths == TableConcats(MaxKeys)

InitTable ==
    /\ current_lang \in Langs
    /\ path \in TablePaths \cup HardwarePaths
    /\ req_type \in ReqTypes
    /\ name_result = NoValue
    /\ name_lang = ""
    /\ ParseIdle
    /\ MonIdle
    /\ MainIdle
    /\ KillIdle

SpecTable == InitTable /\ [][NextName]_vars

\* The fragments of the table in the order they are tested.
TableOrder == <<
    <<"s", "r", "v", "n", "e", "t">>,
    <<"h", "d", "a", "u", "d", "i", "o">>,
    <<"u", "s", "b", "h", "u", "b">>,
    <<"u", "s", "b", "x", "h", "c", "i">>,
    <<"i", "n", "t", "e", "l", "p", "p", "m">>,
    <<"a", "m", "d", "p", "p", "m">>,
    <<"a", "c", "p", "i">>,
    <<"n", "t", "f", "s">> >>

\* The call has returned, for a driver-kind identifier.
DriverResolved ==
    name_result # NoValue /\ req_type # S_PROCESS

\* The positions in TableOrder of the fragments that occur in the
\* lower-cased identifier.
TableHits ==
    {k \in DOMAIN TableOrder : contains(TableOrder[k], lower(path))}

\* C23: for a driver-kind identifier the fragments are tested in the order
\* srvnet, hdaudio, usbhub, usbxhci, intelppm, amdppm, acpi, ntfs against
\* the lower-cased identifier; the label is that of the first fragment in
\* this order that occurs, whatever else the identifier holds ('&' and
\* digits, path separators).
C23_FirstTableFragmentWins ==
    /\ \A k \in DOMAIN TableOrder : known_names[k][1] = TableOrder[k]
    /\ (DriverResolved /\ TableHits # {}) =>
           LET first == CHOOSE k \in TableHits : \A j \in TableHits : k <= j
           IN  name_result[1] = t(name_lang, known_names[first][2])

\* C23 witness: the identifier usbxhci followed by usbhub has resolved to
\* the label of usbhub, which comes first in the table.
C23_Witness ==
    /\ path = <<"u", "s", "b", "x", "h", "c", "i", "u", "s", "b", "h", "u", "b">>
    /\ req_type = S_DRIVER
    /\ name_result = Returned(t(name_lang, "usb_hub"))

\* The call has returned, for a driver-kind identifier that holds no
\* fragment of the table, is no hardware instance id and contains a path
\* separator.
PathSegmentCase ==
    /\ DriverResolved
    /\ TableHits = {}
    /\ ~(contains(<<"&">>, path) /\ \E k \in DOMAIN path : path[k] \in DigitChars)
    /\ \E k \in DOMAIN path : path[k] = "\\"

\* The last path segment of the identifier.
Segment == split_last(path, "\\")

\* The first three characters of the segment hold a digit.
SegmentStartsNumeric ==
    \E k \in 1..3 : k <= Len(Segment) /\ Segment[k] \in DigitChars

\* The result is the one the later rules give for the raw string.
RawPassedOn ==
    name_result[1] = fallback_name(path, lower(path), name_lang)

\* C24 as stated: the last segment is discarded in favour of the raw string
\* if its first three characters contain no digit; otherwise the segment is
\* the result.
C24_SegmentKeptWithDigit ==
    PathSegmentCase =>
        IF ~SegmentStartsNumeric THEN RawPassedOn ELSE name_result[1] = Segment

\* C24 amended: the last segment is the result if it is not empty and its
\* first three characters contain no digit; otherwise it is discarded in
\* favour of the raw string, which is passed on to the later rules.
C24_SegmentKeptWithoutDigit ==
    PathSegmentCase =>
        IF Segment # <<>> /\ ~SegmentStartsNumeric
        THEN name_result[1] = Segment
        ELSE RawPassedOn

\* C24 witness: of the identifiers \x and \7x, the first has resolved to
\* its segment x and the second to the raw string.
C24_Witness ==
    /\ PathSegmentCase
    /\ \/ path = <<"\\", "x">> /\ name_result[1] = <<"x">>
       \/ path = <<"\\", "7", "x">> /\ name_result[1] = path

\* The call has returned, for a driver-kind identifier that holds no
\* fragment of the table and contains '&' and at least one digit.
HardwareIdCase ==
    /\ DriverResolved
    /\ TableHits = {}
    /\ \E k \in DOMAIN path : path[k] = "&"
    /\ \E k \in DOMAIN path : path[k] \in DigitChars

\* The substrings of the hardware-id rule in the order they are looked
\* for, each with its label.
GenericOrder == <<
    << <<"a", "u", "d", "i", "o">>, "audio_device" >>,
    << <<"u", "s", "b">>, "usb_device" >>,
    << <<"p", "c", "i">>, "pci_device" >>,
    << <<"h", "i", "d">>, "input_device" >> >>

GenericHits ==
    {k \in DOMAIN GenericOrder : contains(GenericOrder[k][1], lower(path))}

\* C26: a driver-kind identifier with no fragment of the table, with '&'
\* and at least one digit resolves to a generic label: that of the first of
\* audio, usb, pci, hid found in it, and the hardware-device label when none
\* is found; the raw identifier is never the result.
C26_HardwareIdGetsGenericLabel ==
    HardwareIdCase =>
        /\ name_result[1] # path
        /\ IF GenericHits = {}
           THEN name_result[1] = t(name_lang, "hardware_device")
           ELSE LET first == CHOOSE k \in GenericHits :
                                 \A j \in GenericHits : k <= j
                IN  name_result[1] = t(name_lang, GenericOrder[first][2])

\* C26 witness: the identifier PCIUSB&7 has resolved to the USB device
\* label, and the call was made under a Chinese locale.
C26_Witness ==
    /\ HardwareIdCase
    /\ path = <<"P", "C", "I", "U", "S", "B", "&", "7">>
    /\ name_lang = "zh_TW"
    /\ name_result[1] = t("zh_TW", "usb_device")

S_legacy_kernel_caller ==
    <<"l", "e", "g", "a", "c", "y", " ", "k", "e", "r", "n", "e", "l", " ",
      "c", "a", "l", "l", "e", "r">>

\* The call has returned, for a driver-kind identifier that contains the
\* phrase in any letter case and no fragment of the table.
LegacyDriverResolved ==
    /\ DriverResolved
    /\ TableHits = {}
    /\ contains(S_legacy_kernel_caller, lower(path))

\* C25: every driver-kind identifier that contains "legacy kernel caller"
\* in any letter case, and no fragment of the table, resolves to the
\* legacy-kernel-caller label, whatever else it contains (path separators,
\* '&', digits).
C25_LegacyKernelCallerLabelled ==
    LegacyDriverResolved =>
        name_result[1] = t(name_lang, "legacy_kernel_caller")

\* The case C25 fails on: the phrase followed by "&7" has resolved to the
\* generic hardware-device label.
C25_LegacyTakenForHardwareId ==
    /\ LegacyDriverResolved
    /\ path = <<"L", "e", "g", "a", "c", "y", " ", "K", "e", "r", "n", "e", "l",
                " ", "C", "a", "l", "l", "e", "r", "&", "7">>
    /\ name_result[1] = t(name_lang, "hardware_device")

\* The ellipsis marker of line 243.
S_Ellipsis == <<".", ".", ".">>

\* The call has returned from the last line of get_friendly_name: the
\* identifier is of driver kind, holds no fragment of known_names, is no
\* hardware id, gave no path segment and does not name the legacy kernel
\* caller.
FinalFallbackResolved ==
    /\ name_result # NoValue
    /\ req_type # S_PROCESS
    /\ known_hits(lower(path)) = {}
    /\ ~(contains(<<"&">>, path) /\ any_digit(path))
    /\ ~(/\ contains(<<"\\">>, path)
          /\ split_last(path, "\\") # <<>>
          /\ ~any_digit(prefix(split_last(path, "\\"), 3)))
    /\ ~contains(lower(<<"L", "e", "g", "a", "c", "y", " ", "K", "e", "r", "n", "e",
                         "l", " ", "C", "a", "l", "l", "e", "r">>), lower(path))

\* C11: in the final fallback a raw string is returned unchanged unless it
\* is longer than 30 characters; when it is longer, the result is a prefix
\* of the raw string followed by the ellipsis marker, of at most 30
\* characters plus the marker.
C11_FallbackTruncatesOver30 ==
    FinalFallbackResolved =>
        IF Len(path) > 30
        THEN \E n \in 0..30 : name_result[1] = prefix(path, n) \o S_Ellipsis
        ELSE name_result[1] = path

\* The case C11 fails on: a raw string of exactly 30 characters has come
\* back from the final fallback.
C11_ThirtyCharacters ==
    FinalFallbackResolved /\ Len(path) = 30

\* A step in which a call of get_friendly_name returns.
CallReturns ==
    name_result' # name_result \/ name_lang' # name_lang

\* A call changes no program state: nothing but what it returns.
CallChangesNothing ==
    CallReturns => /\ UNCHANGED <<current_lang, path, req_type>>
                   /\ UNCHANGED parseVars
                   /\ UNCHANGED monVars
                   /\ UNCHANGED <<mainVars, killVars>>

split(s, sep) ==
    LET at == {k \in 1..Len(s) : s[k] = sep}
        n == Cardinality(at)
        pos(j) == CHOOSE k \in at : Cardinality({m \in at : m < k}) = j - 1
        first(j) == IF j = 1 THEN 1 ELSE pos(j - 1) + 1
        last(j) == IF j = n + 1 THEN Len(s) ELSE pos(j) - 1
    IN  [j \in 1..(n + 1) |->
            IF first(j) > last(j) THEN <<>> ELSE SubSeq(s, first(j), last(j))]

\* s.replace(c, ""), c one character
remove_char(s, c) == SelectSeq(s, LAMBDA x : x # c)

\* sep.join(ls), sep one character
RECURSIVE join(_, _)
join(ls, sep) ==
    IF Len(ls) = 0 THEN <<>>
    ELSE IF Len(ls) = 1 THEN ls[1]
    ELSE ls[1] \o <<sep>> \o join(Tail(ls), sep)

\* \w of re, on ASCII
is_word_char(c) ==
    \/ \E k \in DOMAIN LowerCase : LowerCase[k] = lower_char(c)
    \/ c \in DigitChars
    \/ c = "_"

\* The number of characters of s from index from on (1-based) that are
\* in the set chars or, with word, word characters, before the first that is not.
run_length(s, from, chars, word) ==
    LET stop == {k \in from..Len(s) :
                    ~(s[k] \in chars \/ (word /\ is_word_char(s[k])))}
    IN  IF stop = {} THEN Len(s) - from + 1
        ELSE (CHOOSE k \in stop : \A j \in stop : k <= j) - from

\* re.match(r"\[(\w+)\]\s*(.+)", line): NoValue when there is no match, or
\* Returned(<<group(1), group(2)>>). line holds no "\n".
re_match_entry(line) ==
    IF Len(line) = 0 \/ line[1] # "[" THEN NoValue
    ELSE LET n == run_length(line, 2, {}, TRUE)
         IN  IF n = 0 \/ Len(line) < n + 2 \/ line[n + 2] # "]" THEN NoValue
             ELSE LET rest == SubSeq(line, n + 3, Len(line))
                      ws == run_length(rest, 1, SpaceChars, FALSE)
                  IN  IF rest = <<>> THEN NoValue
                      ELSE IF ws = Len(rest)
                      \* \s* gives its last character back to .+
                      THEN Returned(<<SubSeq(line, 2, n + 1), SubSeq(rest, ws, ws)>>)
                      ELSE Returned(<<SubSeq(line, 2, n + 1),
                                      SubSeq(rest, ws + 1, Len(rest))>>)

(***************************************************************************)
(* find_pid_by_name (src/main.py) and the tasklist command it runs.        *)
(* tasks is the list of the running processes, each [image, pid].          *)
(***************************************************************************)
S_NoTasks == <<"I", "N", "F", "O", ":", " ", "N", "o", " ", "t", "a", "s", "k", "s", " ", "a", "r", "e", " ", "r", "u", "n", "n", "i", "n", "g", " ", "w", "h", "i", "c", "h", " ", "m", "a", "t", "c", "h", " ", "t", "h", "e", " ", "s", "p", "e", "c", "i", "f", "i", "e", "d", " ", "c", "r", "i", "t", "e", "r", "i", "a", ".">>

\* One CSV row of tasklist /FO CSV /NH.
tasklist_row(p) ==
    <<"\"">> \o p.image \o <<"\"", ",", "\"">> \o p.pid
        \o <<"\"", ",", "\"", "C", "o", "n", "s", "o", "l", "e", "\"", ",",
             "\"", "1", "\"", ",", "\"", "1", "0", ",", "0", "0", "0", " ", "K", "\"">>

\* stdout of tasklist /FI "IMAGENAME eq <process_name>" /FO CSV /NH: the rows
\* of the processes of that image name, compared without case, or the
\* no-tasks message.
tasklist_stdout(process_name, tasks) ==
    LET found == SelectSeq(tasks, LAMBDA p : lower(p.image) = lower(process_name))
    IN  IF found = <<>> THEN S_NoTasks \o <<"\n">>
        ELSE join([k \in 1..Len(found) |-> tasklist_row(found[k])], "\n") \o <<"\n">>

\* The body of the try block of find_pid_by_name: [raised, value].
\* spawn_ok is whether subprocess.run could run tasklist.
find_pid_try(process_name, tasks, spawn_ok) ==
    IF ~spawn_ok THEN [raised |-> TRUE, value |-> <<>>]
    ELSE LET out == split(strip(tasklist_stdout(process_name, tasks)), "\n")
             parts(k) == split(remove_char(out[k], "\""), ",")
             hits == {k \in DOMAIN out :
                        /\ out[k] # <<>>
                        /\ contains(lower(process_name), lower(out[k]))
                        /\ Len(parts(k)) >= 2}
         IN  IF hits = {} THEN [raised |-> FALSE, value |-> <<>>]
             ELSE [raised |-> FALSE,
                   value |-> parts(CHOOSE k \in hits : \A j \in hits : k <= j)[2]]

\* A mutant of find_pid_by_name: no except clause, the failure to run
\* tasklist propagates.
find_pid_by_name_uncaught(process_name, tasks, spawn_ok) ==
    find_pid_try(process_name, tasks, spawn_ok)

\* find_pid_by_name(process_name): [raised, value]; the bare except makes
\* every failure return "".
find_pid_by_name(process_name, tasks, spawn_ok) ==
    LET r == find_pid_try(process_name, tasks, spawn_ok)
    IN  IF r.raised THEN [raised |-> FALSE, value |-> <<>>] ELSE r

(***************************************************************************)
(* get_power_requests (src/main.py)                                        *)
(***************************************************************************)
S_administrator == <<"a", "d", "m", "i", "n", "i", "s", "t", "r", "a", "t", "o", "r">>

S_RequiresAdmin == <<"R", "e", "q", "u", "i", "r", "e", "s", " ", "a", "d", "m", "i", "n", "i", "s", "t", "r", "a", "t", "o", "r", " ", "p", "r", "i", "v", "i", "l", "e", "g", "e", "s">>

S_None == <<"N", "o", "n", "e", ".">>

sleep_categories == {<<"D", "I", "S", "P", "L", "A", "Y">>,
                     <<"S", "Y", "S", "T", "E", "M">>,
                     <<"A", "W", "A", "Y", "M", "O", "D", "E">>}

\* PowerRequest(category, process, pid, reason)
PowerRequest(category, process, pid, reason) ==
    [category |-> category, process |-> process, pid |-> pid, reason |-> reason]

\* A mutant of requests_append: the new entry is put in front.
requests_prepend(rs, r) == <<r>> \o rs

\* Lines 175-182: requests.append(PowerRequest(...))
requests_append(rs, r) == Append(rs, r)

\* line[:-1]
drop_last(s) == IF Len(s) = 0 THEN <<>> ELSE SubSeq(s, 1, Len(s) - 1)

\* A mutant of takes_reason: whatever line follows is taken as the reason.
takes_reason_any_line(ls, i0) ==
    i0 + 1 < Len(ls)

\* The look-ahead of lines 161-170: TRUE when lines[i + 1] is taken as the
\* reason (i is the 0-based index of the entry line).
takes_reason(ls, i0) ==
    /\ i0 + 1 < Len(ls)
    /\ LET next_line == strip(ls[i0 + 2])
       IN  /\ next_line # <<>>
           /\ ~endswith(next_line, <<":">>)
           /\ ~startswith(next_line, <<"[">>)

\* A mutant of lookup_pid: the process lookup runs for every tag.
lookup_pid_any_tag(tag, process_name, tasks, spawn_ok) ==
    find_pid_by_name(process_name, tasks, spawn_ok)

\* pid = find_pid_by_name(process_name) if req_type == "PROCESS" else ""
lookup_pid(tag, process_name, tasks, spawn_ok) ==
    IF tag = S_PROCESS THEN find_pid_by_name(process_name, tasks, spawn_ok)
    ELSE [raised |-> FALSE, value |-> <<>>]

\* A mutant of end_of_category: a line "None." ends the category too.
end_of_category_at_none(line, category) ==
    IF line = <<>> \/ line = S_None THEN None ELSE category

\* A mutant of end_of_category: no line ends the category.
end_of_category_never(line, category) == category

\* Lines 184-185: if not line: current_category = None
end_of_category(line, category) ==
    IF line = <<>> THEN None ELSE category

\* One iteration of the while loop (lines 150-186) on the scanner state
\* st = [i, current_category, requests, raised]; i is 0-based as in the code.
scan_line(ls, st, tasks, spawn_ok, lang) ==
    LET line == strip(ls[st.i + 1])
        is_header == endswith(line, <<":">>) /\ drop_last(line) \in sleep_categories
        match == IF ~is_header /\ st.current_category # None /\ line # <<>>
                    /\ line # S_None
                 THEN re_match_entry(line) ELSE NoValue
        tag == match[1][1]
        process_path == strip(match[1][2])
        consumed == match # NoValue /\ takes_reason(ls, st.i)
        reason == IF consumed THEN strip(ls[st.i + 2]) ELSE <<>>
        process_name == get_friendly_name(process_path, tag, lang)
        pid == lookup_pid(tag, process_name, tasks, spawn_ok)
        cat1 == IF is_header THEN Str(drop_last(line)) ELSE st.current_category
    IN  IF match # NoValue /\ pid.raised
        THEN [st EXCEPT !.raised = TRUE]
        ELSE [i |-> st.i + (IF consumed THEN 1 ELSE 0) + 1,
              current_category |-> end_of_category(line, cat1),
              requests |->
                  IF match # NoValue
                  THEN requests_append(st.requests,
                                       PowerRequest(st.current_category[1],
                                                    process_name, pid.value,
                                                    reason))
                  ELSE st.requests,
              raised |-> FALSE]

\* The scanner state when the loop starts (lines 144-149).
scan_start == [i |-> 0, current_category |-> None, requests |-> <<>>,
               raised |-> FALSE]

\* The while loop run to its end, or to the exception that leaves it.
RECURSIVE scan_all(_, _, _, _, _)
scan_all(ls, st, tasks, spawn_ok, lang) ==
    IF st.raised \/ st.i >= Len(ls) THEN st
    ELSE scan_all(ls, scan_line(ls, st, tasks, spawn_ok, lang), tasks, spawn_ok, lang)

\* What subprocess.run(["powercfg", "/requests"], ...) does: it raises an
\* exception e with str(e) = msg, or completes with stdout and stderr.
PowercfgRaises(msg) ==
    [raised |-> TRUE, msg |-> msg, stdout |-> <<>>, stderr |-> <<>>]

PowercfgCompletes(stdout, stderr) ==
    [raised |-> FALSE, msg |-> <<>>, stdout |-> stdout, stderr |-> stderr]

\* A mutant of early_return: stderr is searched as it is, not lower-cased.
early_return_case_sensitive(run) ==
    IF run.raised THEN Returned(<<<<>>, Str(run.msg)>>)
    ELSE IF contains(S_administrator, run.stderr)
    THEN Returned(<<<<>>, Str(S_RequiresAdmin)>>)
    ELSE NoValue

\* Lines 129-142: the early returns of get_power_requests, NoValue when the
\* report is parsed.
early_return(run) ==
    IF run.raised THEN Returned(<<<<>>, Str(run.msg)>>)
    ELSE IF contains(S_administrator, lower(run.stderr))
    THEN Returned(<<<<>>, Str(S_RequiresAdmin)>>)
    ELSE NoValue

\* A mutant of get_power_requests: when stderr names the administrator, the
\* report is parsed all the same and its requests come with the error.
get_power_requests_error_with_requests(run, tasks, spawn_ok, lang) ==
    LET st == scan_all(split(run.stdout, "\n"), scan_start, tasks, spawn_ok, lang)
    IN  IF run.raised THEN early_return(run)
        ELSE IF st.raised THEN Raised
        ELSE IF early_return(run) # NoValue
        THEN Returned(<<st.requests, early_return(run)[1][2]>>)
        ELSE Returned(<<st.requests, None>>)

\* get_power_requests() as one call: Returned(<<requests, error>>), or
\* "raised" when an exception leaves the function.
get_power_requests(run, tasks, spawn_ok, lang) ==
    IF early_return(run) # NoValue THEN early_return(run)
    ELSE LET st == scan_all(split(run.stdout, "\n"), scan_start, tasks, spawn_ok, lang)
         IN  IF st.raised THEN Raised ELSE Returned(<<st.requests, None>>)

(***************************************************************************)
(* The reports and command outcomes get_power_requests is run on.          *)
(***************************************************************************)
\* The lines a report is made of.
ReportLines == {
    <<"S", "Y", "S", "T", "E", "M", ":">>,
    <<"D", "I", "S", "P", "L", "A", "Y", ":">>,
    <<"E", "X", "E", "C", "U", "T", "I", "O", "N", ":">>,
    <<>>,
    <<"N", "o", "n", "e", ".">>,
    <<"[", "P", "R", "O", "C", "E", "S", "S", "]", " ", "\\", "D", "\\", "v", "l", "c", ".", "e", "x", "e">>,
    <<"[", "D", "R", "I", "V", "E", "R", "]", " ", "u", "s", "b", "x", "h", "c", "i">>,
    <<"[", "S", "E", "R", "V", "I", "C", "E", "]", " ", "\\", "D", "\\", "v", "l", "c", ".", "e", "x", "e">>,
    <<"P", "l", "a", "y", "i", "n", "g">>,
    <<" ", " ">> }

\* The lists of at most n lines.
RECURSIVE LineLists(_)
LineLists(n) ==
    IF n = 0 THEN {<<>>}
    ELSE LET prev == LineLists(n - 1)
         IN  prev \cup {Append(ls, l) : ls \in prev, l \in ReportLines}

\* stdout of powercfg /requests: at most MaxLines lines, joined by "\n".
Reports == {join(ls, "\n") : ls \in LineLists(MaxLines)}

\* stderr of powercfg /requests.
S_RunAsAdmin == <<"r", "u", "n", " ", "a", "s", " ", "A", "d", "m", "i", "n", "i", "s", "t", "r", "a", "t", "o", "r", "!">>

S_ADMINISTRATOR == <<"A", "D", "M", "I", "N", "I", "S", "T", "R", "A", "T", "O", "R">>

Stderrs == {<<>>, S_RunAsAdmin, S_ADMINISTRATOR}

\* str(e) of the exception subprocess.run raises; "" is str(MemoryError()).
S_WinError2 == <<"[", "W", "i", "n", "E", "r", "r", "o", "r", " ", "2", "]", " ", "n", "o", "t", " ", "f", "o", "u", "n", "d">>

ExceptionTexts == {S_WinError2, <<>>}

PowercfgOutcomes ==
    {PowercfgRaises(msg) : msg \in ExceptionTexts}
      \cup {PowercfgCompletes(out, err) : out \in Reports, err \in Stderrs}

\* The running processes tasklist sees.
P_VLC == [image |-> <<"V", "L", "C", ".", "e", "x", "e">>,
          pid |-> <<"1", "2", "3", "4">>]

P_xvlc == [image |-> <<"x", "v", "l", "c", ".", "e", "x", "e">>,
           pid |-> <<"9", "9">>]

ProcTables == {<<P_xvlc>>, <<P_xvlc, P_VLC>>}

(***************************************************************************)
(* SpecParse: one call of get_power_requests, the while loop one           *)
(* iteration at a time.                                                    *)
(***************************************************************************)
InitParse ==
    /\ current_lang = "en"
    /\ cmd \in PowercfgOutcomes
    /\ procs \in ProcTables
    /\ tasklist_ok \in BOOLEAN
    /\ parse_pc = "call"
    /\ lines = <<>>
    /\ i = 0
    /\ current_category = None
    /\ requests = <<>>
    /\ parse_result = NoValue
    /\ NameIdle
    /\ MonIdle
    /\ MainIdle
    /\ KillIdle

\* Lines 129-149: powercfg is run; the function returns early, or the
\* report is split into lines.
RunPowercfg ==
    /\ parse_pc = "call"
    /\ IF early_return(cmd) # NoValue
       THEN /\ parse_result' = early_return(cmd)
            /\ parse_pc' = "returned"
            /\ UNCHANGED <<lines, i, current_category, requests>>
       ELSE /\ lines' = split(cmd.stdout, "\n")
            /\ i' = scan_start.i
            /\ current_category' = scan_start.current_category
            /\ requests' = scan_start.requests
            /\ parse_pc' = "scan"
            /\ UNCHANGED parse_result
    /\ UNCHANGED <<cmd, procs, tasklist_ok, current_lang>>
    /\ UNCHANGED nameVars
    /\ UNCHANGED monVars
    /\ UNCHANGED <<mainVars, killVars>>

\* Lines 150-186: one iteration of the while loop.
ScanLine ==
    /\ parse_pc = "scan"
    /\ i < Len(lines)
    /\ LET st == scan_line(lines,
                           [i |-> i, current_category |-> current_category,
                            requests |-> requests, raised |-> FALSE],
                           procs, tasklist_ok, current_lang)
       IN  IF st.raised
           THEN /\ parse_result' = Raised
                /\ parse_pc' = "raised"
                /\ UNCHANGED <<i, current_category, requests>>
           ELSE /\ i' = st.i
                /\ current_category' = st.current_category
                /\ requests' = st.requests
                /\ UNCHANGED <<parse_result, parse_pc>>
    /\ UNCHANGED <<cmd, procs, tasklist_ok, lines, current_lang>>
    /\ UNCHANGED nameVars
    /\ UNCHANGED monVars
    /\ UNCHANGED <<mainVars, killVars>>

\* Line 188: return requests, None
ReturnRequests ==
    /\ parse_pc = "scan"
    /\ i >= Len(lines)
    /\ parse_result' = Returned(<<requests, None>>)
    /\ parse_pc' = "returned"
    /\ UNCHANGED <<cmd, procs, tasklist_ok, lines, i, current_category, requests,
                   current_lang>>
    /\ UNCHANGED nameVars
    /\ UNCHANGED monVars
    /\ UNCHANGED <<mainVars, killVars>>

\* The environment: tasklist stops or starts being runnable (the failure of
\* subprocess.run to spawn it is transient).
TasklistChanges ==
    /\ parse_pc \in {"call", "scan"}
    /\ tasklist_ok' = ~tasklist_ok
    /\ UNCHANGED <<cmd, procs, parse_pc, lines, i, current_category, requests,
                   parse_result, current_lang>>
    /\ UNCHANGED nameVars
    /\ UNCHANGED monVars
    /\ UNCHANGED <<mainVars, killVars>>

NextParse == RunPowercfg \/ ScanLine \/ ReturnRequests \/ TasklistChanges

SpecParse == InitParse /\ [][NextParse]_vars

(***************************************************************************)
(* The views derived from the monitor state (src/main.py)                  *)
(***************************************************************************)
\* A label: the key given to t() and the keyword arguments formatted into
\* its text, <<>> when there are none.
Label(key, kwargs) == [key |-> key, kwargs |-> kwargs]

\* A mutant of actionable_of: the filter tests r.reason.
actionable_of_by_reason(rs) == SelectSeq(rs, LAMBDA r : r.reason # <<>>)

\* [r for r in rs if r.pid]
actionable_of(rs) == SelectSeq(rs, LAMBDA r : r.pid # <<>>)

\* [r for r in rs if not r.pid]
ignorable_of(rs) == SelectSeq(rs, LAMBDA r : r.pid = <<>>)

\* str(actionable_count), for a count below 10
Digits == <<"0", "1", "2", "3", "4", "5", "6", "7", "8", "9">>

\* create_icon_image(actionable_count, has_error): the fill and the text
\* drawn.
create_icon_image(actionable_count, has_error) ==
    IF has_error THEN [fill |-> "gray", text |-> <<"!">>]
    ELSE IF actionable_count = 0 THEN [fill |-> "green", text |-> <<"0">>]
    ELSE [fill |-> "red",
          text |-> IF actionable_count < 10
                   THEN <<Digits[actionable_count + 1]>> ELSE <<"9", "+">>]

\* Lines 667-670 and 681-684: the menu item of one request.
menu_item(req) == [process |-> req.process, reason |-> prefix(req.reason, 30)]

\* Lines 647-650 of get_menu: self.error is set.
menu_requires_admin ==
    [header |-> Label("requires_admin", <<>>),
     actionable |-> <<>>, section |-> <<>>, ignorable |-> <<>>]

\* Lines 651-654 of get_menu: self.requests is empty.
menu_no_apps ==
    [header |-> Label("no_apps_blocking", <<>>),
     actionable |-> <<>>, section |-> <<>>, ignorable |-> <<>>]

\* Lines 658-684 of get_menu: the header with the number of actionable
\* requests, their items, and the section of the ignorable ones.
menu_blocking(actionable, ignorable) ==
    [header |-> Label("n_apps_blocking", <<Len(actionable)>>),
     actionable |-> [k \in DOMAIN actionable |-> menu_item(actionable[k])],
     section |-> IF ignorable # <<>>
                 THEN <<Label("usually_safe_to_ignore", <<Len(ignorable)>>)>>
                 ELSE <<>>,
     ignorable |-> [k \in DOMAIN ignorable |-> menu_item(ignorable[k])]]

\* Lines 772-779 of update: the tooltip, from self.error as read at line
\* 772, the local actionable and self.requests as read at line 776.
tooltip(error772, actionable, requests776) ==
    IF truthy(error772) THEN Label("requires_admin", <<>>)
    ELSE IF actionable # <<>> THEN Label("n_blocking", <<Len(actionable)>>)
    ELSE IF requests776 # <<>> THEN Label("ready_drivers_only", <<>>)
    ELSE Label("ready_to_sleep", <<>>)

\* Lines 549-561 of MainWindow.update_ui: monitor.error is set; detail is
\* the error text the status line shows.
ui_error_content(error549) ==
    [status |-> Label("error", <<>>), detail |-> error549[1],
     actionable |-> <<>>, ignorable |-> <<>>]

\* Lines 563-610 of MainWindow.update_ui: the status line and the cards.
ui_requests_content(requests563) ==
    IF requests563 = <<>>
    THEN [status |-> Label("ready_to_sleep", <<>>), detail |-> <<>>,
          actionable |-> <<>>, ignorable |-> <<>>]
    ELSE [status |-> Label("n_apps_blocking", <<Len(requests563)>>),
          detail |-> <<>>,
          actionable |-> actionable_of(requests563),
          ignorable |-> ignorable_of(requests563)]

\* The window MainWindow.__init__ builds, before its first update_ui.
new_window ==
    [viewable |-> FALSE,
     content |-> [status |-> Label("Checking...", <<>>), detail |-> <<>>,
                  actionable |-> <<>>, ignorable |-> <<>>]]

\* get_menu() on one (error, requests) pair, every read seeing that pair.
get_menu(error, rs) ==
    IF truthy(error) THEN menu_requires_admin
    ELSE IF rs = <<>> THEN menu_no_apps
    ELSE menu_blocking(actionable_of(rs), ignorable_of(rs))

\* MainWindow.update_ui() on one (error, requests) pair.
update_ui_content(error, rs) ==
    IF truthy(error) THEN ui_error_content(error) ELSE ui_requests_content(rs)

(***************************************************************************)
(* What the polls of the monitor find.                                     *)
(***************************************************************************)
R_none ==
    <<"S", "Y", "S", "T", "E", "M", ":", "\n", "N", "o", "n", "e", ".">>

R_process ==
    <<"S", "Y", "S", "T", "E", "M", ":", "\n", "[", "P", "R", "O", "C", "E", "S", "S", "]", " ", "\\", "D", "\\", "v", "l", "c", ".", "e", "x", "e", "\n", "P", "l", "a", "y", "i", "n", "g">>

R_example ==
    <<"D", "I", "S", "P", "L", "A", "Y", ":", "\n", "N", "o", "n", "e", ".", "\n", "\n", "S", "Y", "S", "T", "E", "M", ":", "\n", "[", "P", "R", "O", "C", "E", "S", "S", "]", " ", "\\", "D", "\\", "v", "l", "c", ".", "e", "x", "e", "\n", "[", "D", "R", "I", "V", "E", "R", "]", " ", "u", "s", "b", "x", "h", "c", "i">>

R_mixed ==
    <<"S", "Y", "S", "T", "E", "M", ":", "\n", "[", "D", "R", "I", "V", "E", "R", "]", " ", "u", "s", "b", "x", "h", "c", "i", "\n", "[", "P", "R", "O", "C", "E", "S", "S", "]", " ", "\\", "D", "\\", "v", "l", "c", ".", "e", "x", "e", "\n", "[", "S", "E", "R", "V", "I", "C", "E", "]", " ", "\\", "D", "\\", "v", "l", "c", ".", "e", "x", "e", "\n", "[", "P", "R", "O", "C", "E", "S", "S", "]", " ", "\\", "D", "\\", "x", "v", "l", "c", ".", "e", "x", "e">>

PollReports == {R_none, R_process, R_example, R_mixed}

\* powercfg /requests as the monitor runs it: a report, a refusal for want
\* of administrator rights, or an exception with an empty text.
PollOutcomes ==
    {PowercfgCompletes(out, <<>>) : out \in PollReports}
      \cup {PowercfgCompletes(R_process, S_RunAsAdmin), PowercfgRaises(<<>>)}

\* With them the running processes: VLC.exe runs, or it has exited since
\* powercfg listed it.
PollWorlds ==
    {[cmd |-> run, procs |-> <<P_xvlc, P_VLC>>] : run \in PollOutcomes}
      \cup {[cmd |-> PowercfgCompletes(R_process, <<>>), procs |-> <<P_xvlc>>]}

\* What get_power_requests() returns to update(), under _current_lang "en".
PollResults ==
    {get_power_requests(w.cmd, w.procs, TRUE, "en") : w \in PollWorlds}

\* The polls of the specification in which handlers overlap: VLC.exe blocks
\* sleep, or powercfg refuses for want of administrator rights.
OverlapWorlds ==
    {[cmd |-> PowercfgCompletes(R_process, err), procs |-> <<P_xvlc, P_VLC>>] :
        err \in {<<>>, S_RunAsAdmin}}

OverlapResults ==
    {get_power_requests(w.cmd, w.procs, TRUE, "en") : w \in OverlapWorlds}

(***************************************************************************)
(* SleepMonitor and its threads (src/main.py, lines 626-856)               *)
(*                                                                         *)
(* Three threads run the handlers: "main" runs SleepMonitor.run and then   *)
(* the Tk main loop, "monitor" runs monitor_loop, "tray" runs the pystray  *)
(* menu callbacks.  A handler is a sequence of steps, one step for each    *)
(* access to the attributes the threads share; the two stores of the       *)
(* assignment at line 765 are one step, no call lies between them.         *)
(***************************************************************************)
\* Where a thread is when it is inside update().
UpdatePcs == {"poll", "store", "icon", "menu_error", "menu_requests",
              "menu_actionable", "menu_ignorable", "title", "window"}

\* Where a thread is when it is inside no handler.
RestPcs == {"not_started", "loop", "sleep", "idle", "mainloop", "done",
            "raised", "exited"}

\* A handler may start: always when handlers overlap, and only when every
\* other thread is inside no handler when they run one at a time.
may_start(T, overlap) ==
    overlap \/ \A U \in Threads \ {T} : pc[U] \in RestPcs

\* update() is entered from function caller.
enter_update(T, caller) ==
    /\ pc' = [pc EXCEPT ![T] = "poll"]
    /\ frame' = [frame EXCEPT ![T] = [no_frame EXCEPT !.caller = caller]]

\* Line 765, right-hand side: get_power_requests() returns one of results.
update_poll(T, results) ==
    /\ pc[T] = "poll"
    /\ \E result \in results :
         /\ frame' = [frame EXCEPT ![T].snap = result]
         /\ pc' = [pc EXCEPT ![T] = IF result = Raised THEN "raised" ELSE "store"]
    /\ UNCHANGED <<self_requests, self_error, running, icon, window, after_queue,
                   polls, redraws>>
    /\ UNCHANGED <<current_lang, nameVars, parseVars, mainVars, killVars>>

\* A mutant of update_store: an error stays until a snapshot brings another.
update_store_keeping_error(T) ==
    /\ pc[T] = "store"
    /\ self_requests' = frame[T].snap[1][1]
    /\ self_error' = IF frame[T].snap[1][2] = None THEN self_error
                     ELSE frame[T].snap[1][2]
    /\ frame' = [U \in Threads |->
                    IF U = T
                    THEN [frame[T] EXCEPT
                            !.prev = Returned(<<self_requests, self_error>>),
                            !.actionable = actionable_of(self_requests'),
                            !.stale = FALSE]
                    ELSE [frame[U] EXCEPT
                            !.seen = IF @ # <<>>
                                     THEN Append(@, frame[T].snap[1]) ELSE @,
                            !.stale = IF frame[U].caller \in ShowCallers
                                      THEN frame[T].stale ELSE @]]
    /\ pc' = [pc EXCEPT ![T] = "icon"]
    /\ UNCHANGED <<running, icon, window, after_queue, polls, redraws>>
    /\ UNCHANGED <<current_lang, nameVars, parseVars, mainVars, killVars>>

\* Lines 765-766: self.requests, self.error = ...; actionable = [...]
update_store(T) ==
    /\ pc[T] = "store"
    /\ self_requests' = frame[T].snap[1][1]
    /\ self_error' = frame[T].snap[1][2]
    /\ frame' = [U \in Threads |->
                    IF U = T
                    THEN [frame[T] EXCEPT
                            !.prev = Returned(<<self_requests, self_error>>),
                            !.actionable = actionable_of(self_requests'),
                            !.stale = FALSE]
                    ELSE [frame[U] EXCEPT
                            !.seen = IF @ # <<>>
                                     THEN Append(@, frame[T].snap[1]) ELSE @,
                            !.stale = IF frame[U].caller \in ShowCallers
                                      THEN frame[T].stale ELSE @]]
    /\ pc' = [pc EXCEPT ![T] = "icon"]
    /\ UNCHANGED <<running, icon, window, after_queue, polls, redraws>>
    /\ UNCHANGED <<current_lang, nameVars, parseVars, mainVars, killVars>>

\* A mutant of update_icon: the image is assigned only when the snapshot
\* differs from the one it replaced.
update_icon_if_changed(T) ==
    /\ pc[T] = "icon"
    /\ IF icon # None
       THEN /\ IF frame[T].prev = Returned(<<self_requests, self_error>>)
               THEN UNCHANGED <<icon, redraws>>
               ELSE /\ icon' = [icon EXCEPT ![1].icon =
                                   create_icon_image(Len(frame[T].actionable),
                                                     self_error # None)]
                    /\ redraws' = redraws + 1
            /\ pc' = [pc EXCEPT ![T] = "menu_error"]
       ELSE /\ pc' = [pc EXCEPT ![T] = "window"]
            /\ UNCHANGED <<icon, redraws>>
    /\ UNCHANGED <<self_requests, self_error, running, window, after_queue, frame,
                   polls>>
    /\ UNCHANGED <<current_lang, nameVars, parseVars, mainVars, killVars>>

\* Lines 768-769: if self.icon: self.icon.icon = create_icon_image(...)
update_icon(T) ==
    /\ pc[T] = "icon"
    /\ IF icon # None
       THEN /\ icon' = [icon EXCEPT ![1].icon =
                           create_icon_image(Len(frame[T].actionable),
                                             self_error # None)]
            /\ redraws' = redraws + 1
            /\ pc' = [pc EXCEPT ![T] = "menu_error"]
       ELSE /\ pc' = [pc EXCEPT ![T] = "window"]
            /\ UNCHANGED <<icon, redraws>>
    /\ UNCHANGED <<self_requests, self_error, running, window, after_queue, frame,
                   polls>>
    /\ UNCHANGED <<current_lang, nameVars, parseVars, mainVars, killVars>>

\* Line 770 with line 647 of get_menu: if self.error: ...
menu_error(T) ==
    /\ pc[T] = "menu_error"
    /\ IF truthy(self_error)
       THEN /\ icon' = [icon EXCEPT ![1].menu = menu_requires_admin]
            /\ redraws' = redraws + 1
            /\ pc' = [pc EXCEPT ![T] = "title"]
            /\ UNCHANGED frame
       ELSE /\ pc' = [pc EXCEPT ![T] = "menu_requests"]
            /\ frame' = [frame EXCEPT ![T].seen = <<<<self_requests, self_error>>>>]
            /\ UNCHANGED <<icon, redraws>>
    /\ UNCHANGED <<self_requests, self_error, running, window, after_queue,
                   polls>>
    /\ UNCHANGED <<current_lang, nameVars, parseVars, mainVars, killVars>>

\* Line 651 of get_menu: elif not self.requests: ...
menu_requests(T) ==
    /\ pc[T] = "menu_requests"
    /\ IF self_requests = <<>>
       THEN /\ icon' = [icon EXCEPT ![1].menu = menu_no_apps]
            /\ redraws' = redraws + 1
            /\ pc' = [pc EXCEPT ![T] = "title"]
            /\ frame' = [frame EXCEPT ![T].seen = <<>>]
       ELSE /\ pc' = [pc EXCEPT ![T] = "menu_actionable"]
            /\ UNCHANGED <<icon, redraws, frame>>
    /\ UNCHANGED <<self_requests, self_error, running, window, after_queue,
                   polls>>
    /\ UNCHANGED <<current_lang, nameVars, parseVars, mainVars, killVars>>

\* Line 656 of get_menu: actionable = [r for r in self.requests if r.pid]
menu_actionable(T) ==
    /\ pc[T] = "menu_actionable"
    /\ frame' = [frame EXCEPT ![T].menu_actionable = actionable_of(self_requests)]
    /\ pc' = [pc EXCEPT ![T] = "menu_ignorable"]
    /\ UNCHANGED <<self_requests, self_error, running, icon, window, after_queue,
                   polls, redraws>>
    /\ UNCHANGED <<current_lang, nameVars, parseVars, mainVars, killVars>>

\* Lines 657-684 of get_menu and the store of line 770.
menu_ignorable(T) ==
    /\ pc[T] = "menu_ignorable"
    /\ icon' = [icon EXCEPT ![1].menu =
                   menu_blocking(frame[T].menu_actionable, ignorable_of(self_requests))]
    /\ redraws' = redraws + 1
    /\ frame' = [frame EXCEPT ![T].menu_actionable = <<>>, ![T].seen = <<>>]
    /\ pc' = [pc EXCEPT ![T] = "title"]
    /\ UNCHANGED <<self_requests, self_error, running, window, after_queue,
                   polls>>
    /\ UNCHANGED <<current_lang, nameVars, parseVars, mainVars, killVars>>

\* Lines 772-780: self.icon.title = tooltip
update_title(T) ==
    /\ pc[T] = "title"
    /\ icon' = [icon EXCEPT ![1].title =
                   tooltip(self_error, frame[T].actionable, self_requests)]
    /\ redraws' = redraws + 1
    /\ pc' = [pc EXCEPT ![T] = "window"]
    /\ UNCHANGED <<self_requests, self_error, running, window, after_queue, frame,
                   polls>>
    /\ UNCHANGED <<current_lang, nameVars, parseVars, mainVars, killVars>>

\* Where update() returns to: run (line 839), monitor_loop (line 790),
\* manual_refresh (line 761) or MainWindow.refresh (line 542), called by
\* the Refresh button or, "on_kill", as the on_kill_callback of a card.
return_pc(caller) ==
    CASE caller = "run" -> "create_icon"
      [] caller = "monitor_loop" -> "sleep"
      [] caller = "manual_refresh" -> "idle"
      [] caller = "refresh" -> "ui_error"
      [] caller = "on_kill" -> "ui_error"

\* Lines 783-784: the window, if it is visible, is told to redraw; update()
\* returns.
update_window(T) ==
    /\ pc[T] = "window"
    /\ after_queue' = IF window # None /\ window[1].viewable
                      THEN Append(after_queue, "update_ui") ELSE after_queue
    /\ pc' = [pc EXCEPT ![T] = return_pc(frame[T].caller)]
    /\ frame' = [frame EXCEPT ![T] = [no_frame EXCEPT !.caller = frame[T].caller]]
    /\ UNCHANGED <<self_requests, self_error, running, icon, window, polls, redraws>>
    /\ UNCHANGED <<current_lang, nameVars, parseVars, mainVars, killVars>>

\* Line 897 of main and lines 824-836 of run: monitor.run() and its first
\* update().
monitor_run ==
    /\ main_pc = "run"
    /\ pc["main"] = "not_started"
    /\ enter_update("main", "run")
    /\ UNCHANGED <<self_requests, self_error, running, icon, window, after_queue,
                   polls, redraws>>
    /\ UNCHANGED <<current_lang, nameVars, parseVars, mainVars, killVars>>

\* Lines 839-856 of run: the tray icon is created, the monitor thread and
\* the tray thread are started, the Tk main loop is entered.
run_create_icon ==
    /\ pc["main"] = "create_icon"
    /\ icon' = <<[icon |-> create_icon_image(Len(actionable_of(self_requests)),
                                             self_error # None),
                  title |-> Label("Let Me Sleep", <<>>),
                  menu |-> get_menu(self_error, self_requests)]>>
    /\ pc' = [main |-> "mainloop", monitor |-> "loop", tray |-> "idle"]
    /\ frame' = [frame EXCEPT !["main"] = no_frame]
    /\ UNCHANGED <<self_requests, self_error, running, window, after_queue,
                   polls, redraws>>
    /\ UNCHANGED <<current_lang, nameVars, parseVars, mainVars, killVars>>

\* A mutant of monitor_loop: the loop calls update() whatever the flag is.
monitor_loop_ignoring_running(overlap) ==
    /\ pc["monitor"] = "loop"
    /\ may_start("monitor", overlap)
    /\ polls < MaxPolls
    /\ polls' = polls + 1
    /\ enter_update("monitor", "monitor_loop")
    /\ UNCHANGED <<self_requests, self_error, running, icon, window, after_queue,
                   redraws>>
    /\ UNCHANGED <<current_lang, nameVars, parseVars, mainVars, killVars>>

\* Lines 788-789 of monitor_loop: while self.running: self.update()
monitor_loop(overlap) ==
    /\ pc["monitor"] = "loop"
    /\ may_start("monitor", overlap)
    /\ IF running
       THEN /\ polls < MaxPolls
            /\ polls' = polls + 1
            /\ enter_update("monitor", "monitor_loop")
       ELSE /\ pc' = [pc EXCEPT !["monitor"] = "done"]
            /\ UNCHANGED <<polls, frame>>
    /\ UNCHANGED <<self_requests, self_error, running, icon, window, after_queue,
                   redraws>>
    /\ UNCHANGED <<current_lang, nameVars, parseVars, mainVars, killVars>>

\* Line 790 of monitor_loop: time.sleep(self.update_interval)
monitor_sleep ==
    /\ pc["monitor"] = "sleep"
    /\ pc' = [pc EXCEPT !["monitor"] = "loop"]
    /\ UNCHANGED <<self_requests, self_error, running, icon, window, after_queue,
                   frame, polls, redraws>>
    /\ UNCHANGED <<current_lang, nameVars, parseVars, mainVars, killVars>>

\* Lines 759-761: the tray menu item Refresh.
manual_refresh(overlap) ==
    /\ pc["tray"] = "idle"
    /\ may_start("tray", overlap)
    /\ polls < MaxPolls
    /\ polls' = polls + 1
    /\ enter_update("tray", "manual_refresh")
    /\ UNCHANGED <<self_requests, self_error, running, icon, window, after_queue,
                   redraws>>
    /\ UNCHANGED <<current_lang, nameVars, parseVars, mainVars, killVars>>

\* Lines 748-751: the tray menu item Open; one request to show the window
\* is pending at a time.
show_window(overlap) ==
    /\ pc["tray"] = "idle"
    /\ may_start("tray", overlap)
    /\ \A k \in DOMAIN after_queue : after_queue[k] # "_show_window_safe"
    /\ after_queue' = Append(after_queue, "_show_window_safe")
    /\ UNCHANGED <<self_requests, self_error, running, icon, window, pc, frame,
                   polls, redraws>>
    /\ UNCHANGED <<current_lang, nameVars, parseVars, mainVars, killVars>>

\* Lines 792-801: the tray menu item Exit; icon.stop() ends the tray thread.
quit(overlap) ==
    /\ pc["tray"] = "idle"
    /\ may_start("tray", overlap)
    /\ running' = FALSE
    /\ after_queue' = Append(after_queue, "quit")
    /\ pc' = [pc EXCEPT !["tray"] = "done"]
    /\ UNCHANGED <<self_requests, self_error, icon, window, frame, polls, redraws>>
    /\ UNCHANGED <<current_lang, nameVars, parseVars, mainVars, killVars>>

\* The Tk main loop takes the callback at the head of the queue.
takes(callback, overlap) ==
    /\ pc["main"] = "mainloop"
    /\ may_start("main", overlap)
    /\ after_queue # <<>>
    /\ Head(after_queue) = callback
    /\ after_queue' = Tail(after_queue)

\* update_ui() is entered from function caller.
enter_update_ui(caller) ==
    /\ pc' = [pc EXCEPT !["main"] = "ui_error"]
    /\ frame' = [frame EXCEPT !["main"] = [no_frame EXCEPT !.caller = caller]]

\* Lines 753-757: the window is built on first use (MainWindow.__init__,
\* lines 476-494, ends with update_ui()), then shown.
show_window_safe(overlap) ==
    /\ takes("_show_window_safe", overlap)
    /\ window' = IF window = None THEN <<new_window>> ELSE window
    /\ pc' = [pc EXCEPT !["main"] = "ui_error"]
    /\ frame' = [U \in Threads |->
                    IF U = "main"
                    THEN [no_frame EXCEPT
                            !.caller = IF window = None THEN "__init__" ELSE "show",
                            !.stale = TRUE]
                    ELSE [frame[U] EXCEPT !.stale = (pc[U] = "store")]]
    /\ UNCHANGED <<self_requests, self_error, running, icon, polls,
                   redraws>>
    /\ UNCHANGED <<current_lang, nameVars, parseVars, mainVars, killVars>>

\* The callback update() scheduled at line 784.
after_update_ui(overlap) ==
    /\ takes("update_ui", overlap)
    /\ enter_update_ui("after")
    /\ UNCHANGED <<self_requests, self_error, running, icon, window, polls, redraws>>
    /\ UNCHANGED <<current_lang, nameVars, parseVars, mainVars, killVars>>

\* The callback quit() scheduled at line 799: the main loop ends, run()
\* returns and the process exits with its daemon threads.
mainloop_quit(overlap) ==
    /\ takes("quit", overlap)
    /\ pc' = [T \in Threads |-> "exited"]
    /\ UNCHANGED <<self_requests, self_error, running, icon, window, frame,
                   polls, redraws>>
    /\ UNCHANGED <<current_lang, nameVars, parseVars, mainVars, killVars>>

\* Lines 539-542: the Refresh button of the window.
refresh(overlap) ==
    /\ pc["main"] = "mainloop"
    /\ may_start("main", overlap)
    /\ window # None /\ window[1].viewable
    /\ polls < MaxPolls
    /\ polls' = polls + 1
    /\ enter_update("main", "refresh")
    /\ UNCHANGED <<self_requests, self_error, running, icon, window, after_queue,
                   redraws>>
    /\ UNCHANGED <<current_lang, nameVars, parseVars, mainVars, killVars>>

\* Lines 621-623: closing the window hides it.
hide(overlap) ==
    /\ pc["main"] = "mainloop"
    /\ may_start("main", overlap)
    /\ window # None /\ window[1].viewable
    /\ window' = [window EXCEPT ![1].viewable = FALSE]
    /\ UNCHANGED <<self_requests, self_error, running, icon, after_queue, pc, frame,
                   polls, redraws>>
    /\ UNCHANGED <<current_lang, nameVars, parseVars, mainVars, killVars>>

\* What subprocess.run(["taskkill", "/PID", pid, "/F"]) does: it returns
\* with a return code, or raises.
TaskkillOutcomes == {Returned(0), Returned(1), Returned(128), Raised}

\* A mutant of kill_process: success whenever taskkill could be run.
kill_process_any_exit(pid, outcome) ==
    IF pid = <<>> THEN FALSE
    ELSE outcome # Raised

\* kill_process(pid), taskkill doing outcome
kill_process(pid, outcome) ==
    IF pid = <<>> THEN FALSE
    ELSE IF outcome = Raised THEN FALSE
    ELSE outcome[1] = 0

\* Lines 420-421: the End task button of a card of the window; kill_process
\* is called and taskkill runs.
on_kill(overlap) ==
    /\ pc["main"] = "mainloop"
    /\ may_start("main", overlap)
    /\ window # None /\ window[1].viewable
    /\ \E k \in DOMAIN window[1].content.actionable :
          window[1].content.actionable[k].pid # <<>>
    /\ polls < MaxPolls
    /\ pc' = [pc EXCEPT !["main"] = "kill"]
    /\ frame' = [frame EXCEPT !["main"] = [no_frame EXCEPT !.caller = "on_kill"]]
    /\ UNCHANGED <<self_requests, self_error, running, icon, window, after_queue,
                   polls, redraws>>
    /\ UNCHANGED <<current_lang, nameVars, parseVars, mainVars, killVars>>

\* A mutant of on_kill_callback: a kill that succeeded takes the entries of
\* the killed process out of monitor.requests at once.
on_kill_callback_removing_entry ==
    /\ pc["main"] = "kill"
    /\ \E k \in DOMAIN window[1].content.actionable, outcome \in TaskkillOutcomes :
          LET pid == window[1].content.actionable[k].pid
          IN  IF kill_process(pid, outcome)
              THEN /\ polls < MaxPolls
                   /\ self_requests' = SelectSeq(self_requests,
                                                 LAMBDA r : r.pid # pid)
                   /\ polls' = polls + 1
                   /\ enter_update("main", "on_kill")
              ELSE /\ pc' = [pc EXCEPT !["main"] = "mainloop"]
                   /\ frame' = [frame EXCEPT !["main"] = no_frame]
                   /\ UNCHANGED <<self_requests, polls>>
    /\ UNCHANGED <<self_error, running, icon, window, after_queue, redraws>>
    /\ UNCHANGED <<current_lang, nameVars, parseVars, mainVars, killVars>>

\* Lines 421-422: kill_process returns; if it returned True the card calls
\* its on_kill_callback, MainWindow.refresh (lines 539-542).
on_kill_callback ==
    /\ pc["main"] = "kill"
    /\ \E k \in DOMAIN window[1].content.actionable, outcome \in TaskkillOutcomes :
          IF kill_process(window[1].content.actionable[k].pid, outcome)
          THEN /\ polls < MaxPolls
               /\ polls' = polls + 1
               /\ enter_update("main", "on_kill")
          ELSE /\ pc' = [pc EXCEPT !["main"] = "mainloop"]
               /\ frame' = [frame EXCEPT !["main"] = no_frame]
               /\ UNCHANGED polls
    /\ UNCHANGED <<self_requests, self_error, running, icon, window, after_queue,
                   redraws>>
    /\ UNCHANGED <<current_lang, nameVars, parseVars, mainVars, killVars>>

\* update_ui() has drawn content: MainWindow.__init__ returns into show()
\* (line 757, then line 614), show() makes the window visible (lines
\* 615-619), every other caller returns to the main loop.
ui_drawn(content) ==
    IF frame["main"].caller = "__init__"
    THEN /\ window' = [window EXCEPT ![1].content = content]
         /\ pc' = [pc EXCEPT !["main"] = "ui_error"]
         /\ frame' = [frame EXCEPT !["main"] =
                         [no_frame EXCEPT !.caller = "show",
                                          !.stale = frame["main"].stale]]
    ELSE /\ window' = <<[viewable |-> (frame["main"].caller = "show"
                                         \/ window[1].viewable),
                         content |-> content]>>
         /\ pc' = [pc EXCEPT !["main"] = "mainloop"]
         /\ frame' = [frame EXCEPT !["main"] = no_frame]

\* Line 549 of update_ui: if self.monitor.error: ...
ui_error ==
    /\ pc["main"] = "ui_error"
    /\ IF truthy(self_error)
       THEN ui_drawn(ui_error_content(self_error))
       ELSE /\ pc' = [pc EXCEPT !["main"] = "ui_requests"]
            /\ frame' = [frame EXCEPT !["main"].seen =
                                           <<<<self_requests, self_error>>>>]
            /\ UNCHANGED window
    /\ UNCHANGED <<self_requests, self_error, running, icon, after_queue, polls, redraws>>
    /\ UNCHANGED <<current_lang, nameVars, parseVars, mainVars, killVars>>

\* Lines 563-610 of update_ui: the status line and the cards.
ui_requests ==
    /\ pc["main"] = "ui_requests"
    /\ ui_drawn(ui_requests_content(self_requests))
    /\ UNCHANGED <<self_requests, self_error, running, icon, after_queue, polls, redraws>>
    /\ UNCHANGED <<current_lang, nameVars, parseVars, mainVars, killVars>>

(***************************************************************************)
(* Spec: the handlers of the three threads, interleaved step by step.      *)
(* SpecSerial: the same handlers, one at a time.                           *)
(***************************************************************************)
Init ==
    /\ current_lang = "en"
    /\ NameIdle
    /\ ParseIdle
    /\ MonIdle
    /\ MainIdle
    /\ KillIdle

Step(overlap, results) ==
    \/ monitor_run
    \/ run_create_icon
    \/ monitor_loop(overlap)
    \/ monitor_sleep
    \/ manual_refresh(overlap)
    \/ show_window(overlap)
    \/ quit(overlap)
    \/ show_window_safe(overlap)
    \/ after_update_ui(overlap)
    \/ mainloop_quit(overlap)
    \/ refresh(overlap)
    \/ hide(overlap)
    \/ on_kill(overlap)
    \/ on_kill_callback
    \/ ui_error
    \/ ui_requests
    \/ \E T \in Threads :
          \/ update_poll(T, results)
          \/ update_store(T)
          \/ update_icon(T)
          \/ menu_error(T)
          \/ menu_requests(T)
          \/ menu_actionable(T)
          \/ menu_ignorable(T)
          \/ update_title(T)
          \/ update_window(T)

Next == Step(TRUE, OverlapResults)

Spec == Init /\ [][Next]_vars

\* A step of update() in thread T.
update_step(T, results) ==
    \/ update_poll(T, results)
    \/ update_store(T)
    \/ update_icon(T)
    \/ menu_error(T)
    \/ menu_requests(T)
    \/ menu_actionable(T)
    \/ menu_ignorable(T)
    \/ update_title(T)
    \/ update_window(T)

\* A step of the thread that runs monitor_loop.
monitor_thread ==
    \/ monitor_loop(TRUE)
    \/ monitor_sleep
    \/ update_step("monitor", OverlapResults)

\* SpecLoop: the program while its window is never opened: run(), the
\* monitor loop and the tray callbacks Refresh and Exit, interleaved step by
\* step; the monitor thread (threading.Thread, line 848) is scheduled again
\* and again as long as it can make a step.
NextLoop ==
    \/ monitor_run
    \/ run_create_icon
    \/ monitor_loop(TRUE)
    \/ monitor_sleep
    \/ manual_refresh(TRUE)
    \/ quit(TRUE)
    \/ mainloop_quit(TRUE)
    \/ \E T \in Threads : update_step(T, OverlapResults)

SpecLoop == Init /\ [][NextLoop]_vars /\ WF_vars(monitor_thread)

NextSerial == Step(FALSE, PollResults)

SpecSerial == Init /\ [][NextSerial]_vars

(***************************************************************************)
(* SpecMain: main() (src/main.py, lines 859-897) with the task operations  *)
(* of src/scheduler.py, up to the call of SleepMonitor.run.                *)
(***************************************************************************)
F_install_autostart == "--install-task-with-autostart"

F_install == "--install-task"

F_uninstall == "--uninstall-task"

F_no_update == "--no-update"

\* The flags sys.argv can hold.
Flags == {F_install_autostart, F_install, F_uninstall, F_no_update}

\* What subprocess.run(["schtasks", ...]) does: it returns with a return
\* code and a text on stderr, or raises.
SchtasksOutcomes ==
    {Returned([returncode |-> 0, stderr |-> ""]),
     Returned([returncode |-> 1, stderr |-> "ERROR: Access is denied."]),
     Returned([returncode |-> 1, stderr |-> ""]),
     Raised}

\* Line 29
ERROR_ALREADY_EXISTS == 183

\* Line 51: range(20)
SignalAttempts == 20

\* What the operating system answers: IsUserAnAdmin(), the schtasks
\* command, whether a primary instance runs and holds the mutex, whether
\* CreateMutexW returns a handle, the call of OpenEventW from which on the
\* event of the primary instance can be opened (0: never), whether the
\* scheduled task is installed, whether the user accepts the elevation.
Hosts ==
    [admin : BOOLEAN, schtasks : SchtasksOutcomes, other_instance : BOOLEAN,
     mutex_handle : BOOLEAN, show_gui_event : {0, 1, SignalAttempts},
     task_installed : BOOLEAN, elevation : BOOLEAN]

\* GetLastError() after CreateMutexW returned a handle.
GetLastError(h) == IF h.other_instance THEN ERROR_ALREADY_EXISTS ELSE 0

\* A mutant of acquire_single_instance: without a handle the process does
\* not count as the primary instance.
acquire_single_instance_failing_closed(h) ==
    h.mutex_handle /\ GetLastError(h) # ERROR_ALREADY_EXISTS

\* Lines 37-46: acquire_single_instance()
acquire_single_instance(h) ==
    IF ~h.mutex_handle THEN TRUE
    ELSE GetLastError(h) # ERROR_ALREADY_EXISTS

\* A task operation of scheduler.py on host h: schtasks is run for an
\* administrator only; done and failed are the two messages of the
\* operation.
task_operation(h, done, failed) ==
    IF ~h.admin
    THEN [success |-> FALSE, msg |-> "Requires administrator privileges"]
    ELSE IF h.schtasks = Raised
    THEN [success |-> FALSE, msg |-> "str(e)"]
    ELSE IF h.schtasks[1].returncode = 0
    THEN [success |-> TRUE, msg |-> done]
    ELSE [success |-> FALSE,
          msg |-> IF h.schtasks[1].stderr # "" THEN h.schtasks[1].stderr
                  ELSE failed]

\* scheduler.install_task(enable_autostart); the trigger that
\* enable_autostart adds to the XML of the task changes no result.
install_task(enable_autostart, h) ==
    task_operation(h, "Task installed successfully", "Failed to create task")

\* scheduler.uninstall_task()
uninstall_task(h) ==
    task_operation(h, "Task uninstalled successfully", "Failed to delete task")

\* scheduler.run_task()
run_task(h) ==
    IF h.schtasks = Raised THEN [success |-> FALSE, msg |-> "str(e)"]
    ELSE IF h.schtasks[1].returncode = 0
    THEN [success |-> TRUE, msg |-> "Task started"]
    ELSE [success |-> FALSE,
          msg |-> IF h.schtasks[1].stderr # "" THEN h.schtasks[1].stderr
                  ELSE "Failed to run task"]

\* The result of a task operation, with the call that made it.
performed(op, result) ==
    Returned([op |-> op, success |-> result.success, msg |-> result.msg])

InitMain ==
    /\ current_lang = "en"
    /\ NameIdle
    /\ ParseIdle
    /\ MonIdle
    /\ KillIdle
    /\ argv \in SUBSET Flags
    /\ host \in Hosts
    /\ main_pc = "main"
    /\ open_event_calls = 0
    /\ task_result = NoValue
    /\ exit_status = None

\* Lines 864-877, the tests of sys.argv and the task operation of the first
\* flag found.
main_flags ==
    /\ main_pc = "main"
    /\ IF F_install_autostart \in argv
       THEN /\ task_result' = performed("install_task(enable_autostart=True)",
                                        install_task(TRUE, host))
            /\ main_pc' = "print"
       ELSE IF F_install \in argv
       THEN /\ task_result' = performed("install_task(enable_autostart=False)",
                                        install_task(FALSE, host))
            /\ main_pc' = "print"
       ELSE IF F_uninstall \in argv
       THEN /\ task_result' = performed("uninstall_task()", uninstall_task(host))
            /\ main_pc' = "print"
       ELSE /\ main_pc' = "single_instance"
            /\ UNCHANGED task_result
    /\ UNCHANGED <<argv, host, open_event_calls, exit_status>>
    /\ UNCHANGED <<current_lang, nameVars, parseVars, monVars, killVars>>

\* A mutant of main_exit_task: the message is printed and main() goes on.
main_exit_task_going_on ==
    /\ main_pc = "print"
    /\ main_pc' = "single_instance"
    /\ UNCHANGED <<argv, host, open_event_calls, task_result, exit_status>>
    /\ UNCHANGED <<current_lang, nameVars, parseVars, monVars, killVars>>

\* Lines 866-867, 871-872, 876-877: print(msg); sys.exit(0 if success else 1)
main_exit_task ==
    /\ main_pc = "print"
    /\ exit_status' = <<IF task_result[1].success THEN 0 ELSE 1>>
    /\ main_pc' = "exited"
    /\ UNCHANGED <<argv, host, open_event_calls, task_result>>
    /\ UNCHANGED <<current_lang, nameVars, parseVars, monVars, killVars>>

\* Line 879: if not acquire_single_instance(); a process that is not the
\* primary instance goes on to signal the one that is.
main_single_instance ==
    /\ main_pc = "single_instance"
    /\ main_pc' = IF acquire_single_instance(host) THEN "elevate" ELSE "signal"
    /\ UNCHANGED <<argv, host, open_event_calls, task_result, exit_status>>
    /\ UNCHANGED <<current_lang, nameVars, parseVars, monVars, killVars>>

\* Lines 49-61 and 880-881: one turn of the loop of
\* signal_existing_instance_show_gui(). OpenEventW is called; with the
\* event open, SetEvent is called and the function returns; after the last
\* call without one it returns False; main() then exits with status 0.
\* Otherwise the process sleeps 0.1 s and tries again.
main_signal ==
    /\ main_pc = "signal"
    /\ open_event_calls < SignalAttempts
    /\ open_event_calls' = open_event_calls + 1
    /\ IF \/ host.show_gui_event \in 1..(open_event_calls + 1)
          \/ open_event_calls + 1 = SignalAttempts
       THEN /\ exit_status' = <<0>>
            /\ main_pc' = "exited"
       ELSE UNCHANGED <<main_pc, exit_status>>
    /\ UNCHANGED <<argv, host, task_result>>
    /\ UNCHANGED <<current_lang, nameVars, parseVars, monVars, killVars>>

\* Lines 884-896: without administrator rights the process hands over to
\* the scheduled task or to an elevated copy of itself and exits; otherwise
\* it makes the SleepMonitor.
main_elevate ==
    /\ main_pc = "elevate"
    /\ IF /\ ~host.admin
          /\ \/ host.task_installed /\ run_task(host).success
             \/ host.elevation
       THEN /\ exit_status' = <<0>>
            /\ main_pc' = "exited"
       ELSE /\ main_pc' = "run"
            /\ UNCHANGED exit_status
    /\ UNCHANGED <<argv, host, open_event_calls, task_result>>
    /\ UNCHANGED <<current_lang, nameVars, parseVars, monVars, killVars>>

NextMain ==
    \/ main_flags
    \/ main_exit_task
    \/ main_single_instance
    \/ main_signal
    \/ main_elevate
    \/ monitor_run

\* main() is straight-line code: it goes on as long as it can.
SpecMain == InitMain /\ [][NextMain]_vars /\ WF_vars(NextMain)


(***************************************************************************)
(* Claims on get_power_requests, checked under SpecParse.                  *)
(***************************************************************************)
\* powercfg ran and its stderr holds "administrator" in some letter case.
StderrNamesAdministrator ==
    /\ ~cmd.raised
    /\ \E k \in 0..(Len(cmd.stderr) - Len(S_administrator)) :
         \A j \in 1..Len(S_administrator) :
            lower_char(cmd.stderr[k + j]) = S_administrator[j]

\* C4: whenever stderr of the diagnostic command contains "administrator" in
\* any letter case, get_power_requests returns an error and an empty
\* requests list whatever stdout holds, and stdout is never scanned.
C4_AdministratorStderrIsError ==
    StderrNamesAdministrator =>
        /\ parse_pc \in {"call", "returned"}
        /\ lines = <<>> /\ i = 0 /\ requests = <<>>
        /\ parse_pc = "returned" =>
              /\ parse_result # Raised
              /\ parse_result[1][1] = <<>>
              /\ parse_result[1][2] # None

\* C4 witness: stderr "run as Administrator!" with a stdout that lists a
\* process under SYSTEM: has returned the error and no request.
C4_Witness ==
    /\ parse_pc = "returned"
    /\ cmd.stderr = S_RunAsAdmin
    /\ cmd.stdout = join(<< <<"S", "Y", "S", "T", "E", "M", ":">>,
                            <<"[", "P", "R", "O", "C", "E", "S", "S", "]", " ", "\\", "D", "\\", "v", "l", "c", ".", "e", "x", "e">> >>, "\n")
    /\ parse_result = Returned(<<<<>>, Str(S_RequiresAdmin)>>)

\* C5: get_power_requests never raises. Whatever powercfg does, whatever the
\* report holds and whatever the process lookup does, the call is running or
\* has returned a (requests, error) pair; when powercfg cannot be run, the
\* pair is the empty list and the text of the failure.
C5_NeverRaises ==
    /\ parse_result # Raised
    /\ parse_pc \in {"call", "scan", "returned"}
    /\ parse_pc = "returned" =>
          /\ Len(parse_result) = 1 /\ Len(parse_result[1]) = 2
          /\ cmd.raised => parse_result[1] = <<<<>>, Str(cmd.msg)>>

\* C5 witness: VLC.exe runs and the report lists it as a process, yet the
\* call has returned the entry with no pid: the lookup itself failed.
C5_Witness ==
    /\ parse_pc = "returned"
    /\ procs = <<P_xvlc, P_VLC>>
    /\ cmd.stdout = join(<< <<"S", "Y", "S", "T", "E", "M", ":">>,
                            <<"[", "P", "R", "O", "C", "E", "S", "S", "]", " ", "\\", "D", "\\", "v", "l", "c", ".", "e", "x", "e">> >>, "\n")
    /\ parse_result =
          Returned(<< <<PowerRequest(<<"S", "Y", "S", "T", "E", "M">>,
                                     <<"v", "l", "c", ".", "e", "x", "e">>,
                                     <<>>, <<>>)>>, None >>)

\* The tag of an entry line: what stands between "[" and the first "]".
TagOf(line) ==
    SubSeq(line, 2, (CHOOSE k \in 1..Len(line) :
                        line[k] = "]" /\ \A j \in 1..(k - 1) : line[j] # "]") - 1)

\* tasklist can be run and a running process has the image name name,
\* compared without case.
LookupFinds(name) ==
    /\ tasklist_ok
    /\ \E k \in DOMAIN procs : lower(procs[k].image) = lower(name)

\* C9: for every request the scanner appends, pid is non-empty if and only if
\* the tag of its line is PROCESS and the lookup found a running process of
\* that executable name (whole name, letter case ignored).
C9_PidIffProcessFound ==
    [][Len(requests') = Len(requests) + 1 =>
          LET new == requests'[Len(requests')]
          IN  (new.pid # <<>>) <=>
                 (TagOf(strip(lines[i + 1])) = S_PROCESS /\ LookupFinds(new.process))]_vars

\* C9 witness: with VLC.exe running, the [PROCESS] line of vlc.exe got the
\* pid 1234 and the [SERVICE] line of the same file got none.
C9_Witness ==
    /\ parse_pc = "returned"
    /\ procs = <<P_xvlc, P_VLC>>
    /\ cmd.stdout = join(<< <<"S", "Y", "S", "T", "E", "M", ":">>,
                            <<"[", "P", "R", "O", "C", "E", "S", "S", "]", " ", "\\", "D", "\\", "v", "l", "c", ".", "e", "x", "e">>,
                            <<"[", "S", "E", "R", "V", "I", "C", "E", "]", " ", "\\", "D", "\\", "v", "l", "c", ".", "e", "x", "e">> >>, "\n")
    /\ Len(requests) = 2
    /\ requests[1].pid = <<"1", "2", "3", "4">>
    /\ requests[2].pid = <<>>

(***************************************************************************)
(* Claims about the threads of SleepMonitor, checked under Spec.           *)
(***************************************************************************)
\* C1: single-flight polling: at no time are two executions of
\* SleepMonitor.update in progress at once, whichever of the monitor loop,
\* the tray Refresh item and the window Refresh button started them.
C1_SingleFlight ==
    Cardinality({T \in Threads : pc[T] \in UpdatePcs}) <= 1

\* The steps in which get_menu() or update_ui(), having read self.error,
\* reads self.requests.
ReadsRequests(T) ==
    /\ pc[T] \in {"menu_requests", "menu_actionable", "menu_ignorable", "ui_requests"}
    /\ pc'[T] # pc[T]

\* C2: atomic publication: the (requests, error) pair a reader (get_menu,
\* MainWindow.update_ui) reads comes from one single completed cycle: the
\* requests it reads and the error it read before are together one of the
\* pairs the monitor has held since the reader read the error.
C2_ReadersSeeOnePair ==
    [][\A T \in Threads :
          ReadsRequests(T) =>
              \E k \in DOMAIN frame[T].seen :
                  frame[T].seen[k] = <<self_requests, frame[T].seen[1][2]>>]_vars

\* An error that is set comes with an empty requests list.
ErrorImpliesEmpty(pair) == pair[2] # None => pair[1] = <<>>

\* C3: in every snapshot get_power_requests returns to update(), and in
\* the monitor state at all times, also while calls of update() overlap, an
\* error that is set implies an empty requests list.
C3_ErrorImpliesEmptyRequests ==
    /\ ErrorImpliesEmpty(<<self_requests, self_error>>)
    /\ \A T \in Threads :
          frame[T].snap # NoValue => ErrorImpliesEmpty(frame[T].snap[1])
    /\ \A result \in PollResults \cup OverlapResults : ErrorImpliesEmpty(result[1])

\* C3 witness: a completed update() has published an error, and an
\* overlapping update() is about to store a non-empty requests list.
C3_Witness ==
    /\ self_error # None
    /\ polls >= 1
    /\ \E T \in Threads : pc[T] = "store" /\ frame[T].snap[1][1] # <<>>

(***************************************************************************)
(* Claims about the views update() derives, checked under SpecSerial.      *)
(***************************************************************************)
\* The status the claim C6 gives a snapshot.
StatusKind(rs, error) ==
    IF error # None THEN "ERROR"
    ELSE IF rs = <<>> THEN "CLEAR"
    ELSE IF \A k \in DOMAIN rs : rs[k].pid = <<>> THEN "DRIVERS_ONLY"
    ELSE "BLOCKED"

\* The status a tooltip states.
TooltipKind(label) ==
    CASE label.key = "requires_admin" -> "ERROR"
      [] label.key = "n_blocking" -> "BLOCKED"
      [] label.key = "ready_drivers_only" -> "DRIVERS_ONLY"
      [] label.key = "ready_to_sleep" -> "CLEAR"
      [] OTHER -> "NONE"

\* The statuses an icon image stands for: the image does not tell a
\* snapshot without requests from one with drivers only.
IconKinds(image) ==
    CASE image.fill = "gray" -> {"ERROR"}
      [] image.fill = "red" -> {"BLOCKED"}
      [] OTHER -> {"CLEAR", "DRIVERS_ONLY"}

\* update() has derived icon image, menu and tooltip from the snapshot it
\* stored.
Derived(T) == pc[T] = "window" /\ icon # None

\* C6: the status update() derives from a snapshot, as tray icon state and
\* as tooltip, is ERROR whenever error is set, else CLEAR without requests,
\* DRIVERS_ONLY when no request has a pid, BLOCKED when one has.
C6_StatusOfSnapshot ==
    \A T \in Threads :
        Derived(T) =>
            /\ TooltipKind(icon[1].title) = StatusKind(self_requests, self_error)
            /\ StatusKind(self_requests, self_error) \in IconKinds(icon[1].icon)

\* The statuses a menu header or a window status line stands for: neither
\* tells a snapshot without requests from one with drivers only, and a line
\* that counts 0 apps blocking is read as not blocked.
HeaderKinds(label) ==
    CASE label.key \in {"requires_admin", "error"} -> {"ERROR"}
      [] label.key \in {"no_apps_blocking", "ready_to_sleep"} ->
            {"CLEAR", "DRIVERS_ONLY"}
      [] label.key = "n_apps_blocking" ->
            IF label.kwargs[1] = 0 THEN {"CLEAR", "DRIVERS_ONLY"}
            ELSE {"BLOCKED"}
      [] OTHER -> {}

\* The number of blockers a label states: its n, and 0 when it has none.
CountShown(label) ==
    IF label.kwargs = <<>> THEN 0 ELSE label.kwargs[1]

\* The number of blockers an icon image states.
IconCount(image) ==
    IF image.fill = "red"
    THEN CHOOSE n \in 1..9 : image.text = <<Digits[n + 1]>>
    ELSE 0

\* Tray icon, tooltip, tray menu and the visible window all show the
\* snapshot the monitor holds.
AllShowSnapshot ==
    /\ icon # None
    /\ window # None
    /\ window[1].viewable
    /\ icon[1].icon = create_icon_image(Len(actionable_of(self_requests)),
                                        self_error # None)
    /\ icon[1].title = tooltip(self_error, actionable_of(self_requests),
                               self_requests)
    /\ icon[1].menu = get_menu(self_error, self_requests)
    /\ window[1].content = update_ui_content(self_error, self_requests)

\* C28: tray icon, tooltip, tray menu header and window status line show
\* the same status kind and the same blocker count for one snapshot; a
\* snapshot whose requests all lack a pid is shown as not blocked by each,
\* and the count shown is everywhere the number of actionable entries.
C28_ConsumersAgree ==
    AllShowSnapshot =>
        /\ \E kind \in {"ERROR", "CLEAR", "DRIVERS_ONLY", "BLOCKED"} :
              /\ kind \in IconKinds(icon[1].icon)
              /\ kind = TooltipKind(icon[1].title)
              /\ kind \in HeaderKinds(icon[1].menu.header)
              /\ kind \in HeaderKinds(window[1].content.status)
        /\ LET count == IF truthy(self_error) THEN 0
                        ELSE Len(actionable_of(self_requests))
           IN  /\ IconCount(icon[1].icon) = count
               /\ CountShown(icon[1].title) = count
               /\ CountShown(icon[1].menu.header) = count
               /\ CountShown(window[1].content.status) = count

\* The case C28 fails on: the snapshot holds one request, without a pid;
\* the tooltip says ready (drivers only), the window status line says
\* 1 app blocking.
C28_DriversOnlyShownBlocking ==
    /\ AllShowSnapshot
    /\ self_error = None
    /\ Len(self_requests) = 1
    /\ self_requests[1].pid = <<>>
    /\ icon[1].title = Label("ready_drivers_only", <<>>)
    /\ window[1].content.status = Label("n_apps_blocking", <<1>>)

\* The indexes of the requests with a pid.
WithPid(rs) == {k \in DOMAIN rs : rs[k].pid # <<>>}

\* The entries of rs at the indexes in S, in the order of rs.
Pick(rs, S) ==
    [n \in 1..Cardinality(S) |->
        rs[CHOOSE k \in S : Cardinality({j \in S : j < k}) = n - 1]]

\* C7: the actionable list and the ignorable list partition the requests
\* list: the first holds the entries with a pid, the second every other
\* entry, each in the order of the requests list; so get_menu() builds its
\* items and update_ui() its cards.
C7_Partition ==
    [][/\ (pc["main"] = "ui_requests" /\ pc'["main"] # "ui_requests"
           /\ self_requests # <<>>) =>
              /\ window'[1].content.actionable
                     = Pick(self_requests, WithPid(self_requests))
              /\ window'[1].content.ignorable
                     = Pick(self_requests, DOMAIN self_requests \ WithPid(self_requests))
       /\ \A T \in Threads :
              (pc[T] = "menu_ignorable" /\ pc'[T] = "title") =>
                  LET a == Pick(self_requests, WithPid(self_requests))
                      g == Pick(self_requests,
                                DOMAIN self_requests \ WithPid(self_requests))
                  IN  /\ icon'[1].menu.actionable = [k \in DOMAIN a |-> menu_item(a[k])]
                      /\ icon'[1].menu.ignorable = [k \in DOMAIN g |-> menu_item(g[k])]
                      /\ icon'[1].menu.header.kwargs = <<Len(a)>>]_vars

\* C7 witness: menu and window show two actionable and two ignorable
\* requests of a list that starts with an ignorable one followed by an
\* actionable one.
C7_Witness ==
    /\ Len(self_requests) = 4
    /\ self_requests[1].pid = <<>> /\ self_requests[2].pid # <<>>
    /\ icon # None
    /\ Len(icon[1].menu.actionable) = 2 /\ Len(icon[1].menu.ignorable) = 2
    /\ window # None
    /\ Len(window[1].content.actionable) = 2
    /\ Len(window[1].content.ignorable) = 2

\* A cycle of update() whose snapshot equals the pair it replaced is at a
\* step that may assign to the tray icon.
RepeatsSnapshot(T) ==
    /\ pc[T] \in {"icon", "menu_error", "menu_requests", "menu_actionable",
                  "menu_ignorable", "title"}
    /\ icon # None
    /\ frame[T].prev = Returned(<<self_requests, self_error>>)

\* The step assigns icon.icon, icon.menu or icon.title.
Assigns(T) ==
    \/ pc[T] = "icon" /\ pc'[T] = "menu_error"
    \/ pc[T] \in {"menu_error", "menu_requests", "menu_ignorable"} /\ pc'[T] = "title"
    \/ pc[T] = "title" /\ pc'[T] = "window"

S_SYSTEM_header == <<"S", "Y", "S", "T", "E", "M", ":">>

\* The three lines that open a category.
CategoryHeaders ==
    {<<"D", "I", "S", "P", "L", "A", "Y", ":">>, S_SYSTEM_header,
     <<"A", "W", "A", "Y", "M", "O", "D", "E", ":">>}

\* A step of the while loop.
ScanStep ==
    parse_pc = "scan" /\ i' # i

\* The line a step of the while loop reads.
LineRead == strip(lines[i + 1])

\* The line read is the line "None.", or is neither blank, nor a category
\* header, nor of the form [TAG] rest.
NoEntryLine ==
    \/ LineRead = S_None
    \/ /\ LineRead # <<>>
       /\ LineRead \notin CategoryHeaders
       /\ re_match_entry(LineRead) = NoValue

\* C19: under an active category, a line that is "None." or does not match
\* [TAG] rest produces no entry and does not stop the scan: the scan goes on
\* with the next line, in the same category, and a line [TAG] rest read
\* under an active category is made an entry whatever came before it. In
\* particular the two lines "SYSTEM:", "None." leave the list empty.
C19_SkippedLineDoesNotStopScan ==
    /\ [][(ScanStep /\ current_category # None /\ NoEntryLine) =>
             /\ requests' = requests
             /\ current_category' = current_category
             /\ i' = i + 1
             /\ parse_pc' = "scan"]_vars
    /\ [][(ScanStep /\ current_category # None
             /\ re_match_entry(LineRead) # NoValue) =>
             /\ Len(requests') = Len(requests) + 1
             /\ SubSeq(requests', 1, Len(requests)) = requests
             /\ requests'[Len(requests')].category = current_category[1]]_vars
    /\ []((parse_pc = "scan" /\ i = 2 /\ lines[1] = S_SYSTEM_header
             /\ lines[2] = S_None) => requests = <<>>)

\* C19 witness: after "SYSTEM:" and "None." the line "[DRIVER] usbxhci" has
\* been made an entry of the category SYSTEM.
C19_Witness ==
    /\ parse_pc = "scan"
    /\ lines = <<S_SYSTEM_header, S_None,
                 <<"[", "D", "R", "I", "V", "E", "R", "]", " ",
                   "u", "s", "b", "x", "h", "c", "i">> >>
    /\ i = 3
    /\ Len(requests) = 1
    /\ requests[1].category = <<"S", "Y", "S", "T", "E", "M">>

\* C20: a blank line ends the current category: after it the current
\* category is none, and no line produces an entry or sets a category until
\* a line DISPLAY:, SYSTEM: or AWAYMODE: is read.
C20_BlankLineEndsCategory ==
    /\ [][(ScanStep /\ LineRead = <<>>) =>
             /\ current_category' = None
             /\ requests' = requests]_vars
    /\ [][(ScanStep /\ current_category = None
             /\ LineRead \notin CategoryHeaders) =>
             /\ current_category' = None
             /\ requests' = requests]_vars

\* C20 witness: after "SYSTEM:" and a blank line, the line
\* "[DRIVER] usbxhci" has been read and has produced no entry.
C20_Witness ==
    /\ parse_pc = "scan"
    /\ lines = <<S_SYSTEM_header, <<>>,
                 <<"[", "D", "R", "I", "V", "E", "R", "]", " ",
                   "u", "s", "b", "x", "h", "c", "i">> >>
    /\ i = 3
    /\ requests = <<>>
    /\ current_category = None

\* C30: while a primary instance runs, a newly launched process never
\* starts a monitor of its own: it is not taken for the primary instance,
\* it signals the running instance with at most 20 attempts and exits.
C30_SecondInstanceNeverRuns ==
    host.other_instance =>
        /\ main_pc \notin {"elevate", "run"}
        /\ pc["main"] = "not_started"
        /\ open_event_calls <= SignalAttempts

\* The case C30 fails on: a primary instance runs, CreateMutexW has
\* returned no handle to the new process, and the new process has started
\* SleepMonitor.run.
C30_SecondMonitorStarted ==
    /\ host.other_instance
    /\ ~host.mutex_handle
    /\ main_pc = "run"
    /\ pc["main"] # "not_started"

(***************************************************************************)
(* One call of kill_process(pid), for the pids of up to MaxPidLen digits.  *)
(***************************************************************************)
MaxPidLen == 3

PidDigits == {"0", "4", "2"}

RECURSIVE PidsUpTo(_)
PidsUpTo(n) ==
    IF n = 0 THEN {<<>>}
    ELSE LET prev == PidsUpTo(n - 1)
         IN  prev \cup {a \o <<d>> : a \in prev, d \in PidDigits}

Pids == PidsUpTo(MaxPidLen)

InitKill ==
    /\ current_lang = "en"
    /\ NameIdle
    /\ ParseIdle
    /\ MonIdle
    /\ MainIdle
    /\ kill_pid \in Pids
    /\ kill_pc = "call"
    /\ taskkill = NoValue
    /\ kill_result = NoValue

\* Lines 267-270: if not pid: return False; otherwise taskkill is started.
kill_call ==
    /\ kill_pc = "call"
    /\ IF kill_pid = <<>>
       THEN /\ kill_result' = Returned(kill_process(kill_pid, NoValue))
            /\ kill_pc' = "returned"
       ELSE /\ kill_pc' = "taskkill"
            /\ UNCHANGED kill_result
    /\ UNCHANGED <<kill_pid, taskkill>>
    /\ UNCHANGED <<current_lang, nameVars, parseVars, monVars, mainVars>>

\* Lines 270-278: subprocess.run returns or raises, and kill_process
\* returns.
kill_return ==
    /\ kill_pc = "taskkill"
    /\ \E outcome \in TaskkillOutcomes :
          /\ taskkill' = <<outcome>>
          /\ kill_result' = Returned(kill_process(kill_pid, outcome))
    /\ kill_pc' = "returned"
    /\ UNCHANGED kill_pid
    /\ UNCHANGED <<current_lang, nameVars, parseVars, monVars, mainVars>>

NextKill == kill_call \/ kill_return

SpecKill == InitKill /\ [][NextKill]_vars

\* C27: kill_process returns true exactly when the pid is not empty and
\* taskkill exits with code 0; for an empty pid it returns false and
\* taskkill is never run; when taskkill cannot be run it returns false, and
\* no call ends in an exception.
C27_KillSucceedsOnExitZero ==
    /\ kill_pid = <<>> => taskkill = NoValue
    /\ kill_pc = "returned" =>
           /\ kill_result \in {Returned(TRUE), Returned(FALSE)}
           /\ kill_result[1] <=>
                  (kill_pid # <<>> /\ taskkill = <<Returned(0)>>)

\* C27 witness: for the pid "0" taskkill could not be run, and the call
\* has returned false.
C27_Witness ==
    /\ kill_pc = "returned"
    /\ kill_pid = <<"0">>
    /\ taskkill = <<Raised>>
    /\ kill_result = Returned(FALSE)

(***************************************************************************)
(* Claims on the entries the scanner makes, checked under SpecParse.       *)
(***************************************************************************)
\* A step of the while loop that reads a line [TAG] rest under an active
\* category.
EntryStep ==
    /\ ScanStep
    /\ current_category # None
    /\ re_match_entry(LineRead) # NoValue

\* The line after the one read, stripped; <<>> when there is none.
NextLine ==
    IF i + 2 <= Len(lines) THEN strip(lines[i + 2]) ELSE <<>>

\* The line after the one read exists, is not blank, does not end with ':'
\* and does not start with '['.
NextLineIsReason ==
    /\ NextLine # <<>>
    /\ NextLine[Len(NextLine)] # ":"
    /\ NextLine[1] # "["

\* C21: for an entry line at index i, line i+1 becomes the reason of the
\* entry and the scan resumes at i+2 exactly when line i+1 exists, is not
\* blank, does not end with ':' and does not start with '['; otherwise the
\* reason is empty and the scan resumes at i+1. No other step skips a line,
\* and the step that consumes a reason makes the one entry of its entry
\* line and leaves the category as it is.
C21_ReasonLookAhead ==
    /\ [][EntryStep =>
             /\ Len(requests') = Len(requests) + 1
             /\ current_category' = current_category
             /\ IF NextLineIsReason
                THEN /\ requests'[Len(requests')].reason = NextLine
                     /\ i' = i + 2
                ELSE /\ requests'[Len(requests')].reason = <<>>
                     /\ i' = i + 1]_vars
    /\ [][(ScanStep /\ ~EntryStep) => i' = i + 1]_vars

\* C21 witness: after "SYSTEM:", the line "Playing" that follows the entry
\* line of vlc.exe has become the reason of that entry, in one step.
C21_Witness ==
    /\ parse_pc = "scan"
    /\ Len(lines) = 3
    /\ lines[1] = S_SYSTEM_header
    /\ lines[3] = <<"P", "l", "a", "y", "i", "n", "g">>
    /\ i = 3
    /\ Len(requests) = 1
    /\ requests[1].reason = <<"P", "l", "a", "y", "i", "n", "g">>

\* Line k of the report, stripped.
Line(k) == strip(lines[k])

\* Line k stands under an active category: a category header precedes it
\* with no blank line in between.
UnderCategory(k) ==
    \E h \in 1..(k - 1) :
        /\ Line(h) \in CategoryHeaders
        /\ \A j \in (h + 1)..(k - 1) : Line(j) # <<>>

\* The lines among the first n that match [TAG] rest under an active
\* category. Such a line starts with '[' and so is never taken as a reason.
EntryLines(n) ==
    {k \in 1..n : UnderCategory(k) /\ re_match_entry(Line(k)) # NoValue}

\* The elements of a set of numbers in increasing order.
Ascending(S) ==
    CHOOSE f \in [1..Cardinality(S) -> S] :
        \A a, b \in 1..Cardinality(S) : a < b => f[a] < f[b]

\* The name the entry made of line k gets.
NameOfLine(k) ==
    LET m == re_match_entry(Line(k))[1]
    IN  get_friendly_name(strip(m[2]), m[1], current_lang)

\* C22: the list holds exactly one entry per line that matches [TAG] rest
\* under an active category, in the order of those lines: at every point
\* of the scan for the lines read so far, and in the list returned for all
\* lines of the report.
C22_EntriesInLineOrder ==
    /\ LET order == Ascending(EntryLines(i))
       IN  /\ Len(requests) = Len(order)
           /\ \A n \in 1..Len(order) :
                  requests[n].process = NameOfLine(order[n])
    /\ (parse_pc = "returned" /\ early_return(cmd) = NoValue) =>
           /\ i = Len(lines)
           /\ parse_result = Returned(<<requests, None>>)

\* C22 witness: a report with two entry lines of different names has been
\* scanned and the list of two entries returned.
C22_Witness ==
    /\ parse_pc = "returned"
    /\ early_return(cmd) = NoValue
    /\ Len(requests) = 2
    /\ requests[1].process # requests[2].process
    /\ Cardinality(EntryLines(Len(lines))) = 2

\* Line k is a header line of the report: a name followed by ':', of a
\* sleep category or of any other category.
HeaderLine(k) ==
    /\ Line(k) # <<>>
    /\ Line(k)[Len(Line(k))] = ":"
    /\ Line(k)[1] # "["

\* The header lines before line k.
HeadersBefore(k) == {h \in 1..(k - 1) : HeaderLine(h)}

\* C29: every entry has a category among DISPLAY, SYSTEM, AWAYMODE, and it
\* is the one named by the nearest header line before the line of the
\* entry, with no blank line between the two; so an entry listed under the
\* header of another category is not in the list.
C29_CategoryOfNearestHeader ==
    LET order == Ascending(EntryLines(i))
    IN  \A n \in 1..Len(requests) :
            /\ requests[n].category \in sleep_categories
            /\ n <= Len(order) =>
                   /\ HeadersBefore(order[n]) # {}
                   /\ LET h == CHOOSE a \in HeadersBefore(order[n]) :
                                   \A b \in HeadersBefore(order[n]) : b <= a
                      IN  /\ Line(h) = requests[n].category \o <<":">>
                          /\ \A j \in (h + 1)..(order[n] - 1) : Line(j) # <<>>

\* The case C29 fails on: the report "SYSTEM:", "EXECUTION:", and an entry
\* line; the entry has been returned, as one of the category SYSTEM.
C29_EntryOfOtherCategoryReported ==
    /\ parse_pc = "returned"
    /\ Len(lines) = 3
    /\ Line(1) = S_SYSTEM_header
    /\ Line(2) = <<"E", "X", "E", "C", "U", "T", "I", "O", "N", ":">>
    /\ Len(requests) = 1
    /\ requests[1].category = <<"S", "Y", "S", "T", "E", "M">>
    /\ parse_result = Returned(<<requests, None>>)

(***************************************************************************)
(* Claims on what triggers a poll, checked under SpecSerial and Spec.      *)
(***************************************************************************)
\* A step in which show() returns, the window visible.
ShowReturns ==
    /\ frame["main"].caller = "show"
    /\ pc["main"] \in {"ui_error", "ui_requests"}
    /\ pc'["main"] = "mainloop"
    /\ window'[1].viewable

\* C13: every call of show() triggers a cycle: when show() returns, what the
\* window displays is a snapshot that get_power_requests() returned at or
\* after the call of show().
C13_ShowDisplaysFreshSnapshot ==
    [][ShowReturns => ~frame["main"].stale]_vars

\* The case C13 is about: a hidden window has been shown again after a
\* manual refresh, and show() is about to draw and return.
C13_Witness ==
    /\ frame["main"].caller = "show"
    /\ pc["main"] = "ui_requests"
    /\ window # None
    /\ ~window[1].viewable
    /\ polls > 0

\* C14: the blocking calls of a cycle, powercfg and tasklist, both made
\* inside get_power_requests(), are executed only by the background polling
\* task, the thread of monitor_loop: never by the main thread of the GUI and
\* never by the thread of the tray callbacks.
C14_OnlyMonitorThreadPolls ==
    \A T \in Threads : pc[T] = "poll" => T = "monitor"

\* The case C14 is about: the tray callback manual_refresh is inside
\* get_power_requests() on the tray thread, while the monitor thread sleeps.
C14_Witness ==
    /\ pc["tray"] = "poll"
    /\ frame["tray"].caller = "manual_refresh"
    /\ pc["monitor"] = "sleep"

(***************************************************************************)
(* Claims on the kill action, checked under Spec.                          *)
(***************************************************************************)
\* The pair the monitor publishes.
Published == <<self_requests, self_error>>

\* A step of on_kill: kill_process is called, or it returns.
KillStep ==
    /\ pc'["main"] # pc["main"]
    /\ pc'["main"] = "kill" \/ pc["main"] = "kill"

\* The step in which a kill_process that failed returns.
FailedKillStep ==
    pc["main"] = "kill" /\ pc'["main"] = "mainloop"

\* C15: a kill is never applied as a delta to the published snapshot:
\* kill_process, whether it succeeds or fails, leaves monitor.requests and
\* monitor.error unchanged; the published list changes only when an
\* update() stores the snapshot it has just parsed; and a kill that failed
\* changes no state at all.
C15_KillLeavesSnapshot ==
    [][/\ KillStep => UNCHANGED Published
       /\ FailedKillStep =>
              /\ UNCHANGED <<self_requests, self_error, running, icon, window,
                             after_queue, polls, redraws>>
              /\ frame'["main"] = no_frame
       /\ Published' # Published =>
              \E T \in Threads : /\ pc[T] = "store"
                                 /\ pc'[T] = "icon"
                                 /\ frame[T].snap # NoValue
                                 /\ Published' = frame[T].snap[1]]_vars

\* C15 witness: a kill has succeeded, the list still holds the entry with a
\* pid whose card was clicked, and the update() that the callback started is
\* about to store a freshly parsed snapshot without any such entry.
C15_Witness ==
    /\ pc["main"] = "store"
    /\ frame["main"].caller = "on_kill"
    /\ actionable_of(self_requests) # <<>>
    /\ actionable_of(frame["main"].snap[1][1]) = <<>>

(***************************************************************************)
(* Claims on the life of the monitor loop, checked under SpecLoop.         *)
(***************************************************************************)
\* The step in which the loop of monitor_loop starts a cycle.
LoopStartsCycle ==
    pc["monitor"] # "poll" /\ pc'["monitor"] = "poll"

\* The monitor thread has left monitor_loop, or the process has exited.
LoopEnded ==
    pc["monitor"] \in {"done", "exited"}

C17_CyclePublishesItsParseResult ==
    [][\A T \in Threads :
          /\ (pc[T] = "poll" /\ pc'[T] # "poll") => pc'[T] \in {"store", "exited"}
          /\ (pc[T] = "store" /\ pc'[T] # "store") => pc'[T] \in {"icon", "exited"}
          /\ (pc[T] = "store" /\ pc'[T] = "icon") =>
                 /\ self_requests' = frame[T].snap[1][1]
                 /\ self_error' = frame[T].snap[1][2]
          /\ (pc'[T] = "poll" /\ pc[T] # "poll") => pc[T] \notin UpdatePcs]_vars

\* C17 witness: the monitor holds an error, and a cycle whose parse
\* succeeded, with one request, is about to publish.
C17_Witness ==
    \E T \in Threads :
        /\ pc[T] = "store"
        /\ truthy(self_error)
        /\ frame[T].snap[1][2] = None
        /\ frame[T].snap[1][1] # <<>>

(***************************************************************************)
(* Claims on main(), checked under SpecMain.                               *)
(***************************************************************************)
\* The flags of the task operations.
TaskFlags == {F_install_autostart, F_install, F_uninstall}

\* The task operation of the first flag main() tests for.
FirstTaskOperation ==
    IF F_install_autostart \in argv THEN "install_task(enable_autostart=True)"
    ELSE IF F_install \in argv THEN "install_task(enable_autostart=False)"
    ELSE "uninstall_task()"

\* schtasks has done what an administrator asked for.
TaskOperationSucceeds ==
    host.admin /\ host.schtasks = Returned([returncode |-> 0, stderr |-> ""])

\* C18: launched with --install-task-with-autostart, --install-task or
\* --uninstall-task, the program performs that task operation and exits,
\* with status 0 if the operation succeeded and status 1 if it failed, and
\* SleepMonitor.run is never started in that process.
C18_TaskFlagExitsWithoutRun ==
    /\ [](argv \cap TaskFlags # {} =>
            /\ main_pc \in {"main", "print", "exited"}
            /\ pc["main"] = "not_started"
            /\ main_pc = "exited" =>
                  /\ task_result # NoValue
                  /\ task_result[1].op = FirstTaskOperation
                  /\ task_result[1].success = TaskOperationSucceeds
                  /\ exit_status = <<IF TaskOperationSucceeds THEN 0 ELSE 1>>)
    /\ (argv \cap TaskFlags # {}) ~> (main_pc = "exited")

\* C18 witness: launched with --uninstall-task and without administrator
\* rights, the program has exited with status 1.
C18_Witness ==
    /\ argv = {F_uninstall}
    /\ ~host.admin
    /\ main_pc = "exited"
    /\ exit_status = <<1>>

====
